---- MODULE Spec2Model ----
(***************************************************************************)
(* The publish pipeline of the Pub/Sub Publisher: Publish, Stop, Flush,    *)
(* ResumePublish, initBundler and publishMessageBundle, together with the  *)
(* collaborators they drive: the flow controller, the publish scheduler    *)
(* (one bundling partition per ordering key), the PublishResult handle and *)
(* the Publish RPC.                                                        *)
(***************************************************************************)
EXTENDS Integers, Sequences, FiniteSets, TLC

\* ------------------------------------------------------------------ bounds
MaxMsgs == 3            \* Publish calls made in one behaviour
FewMsgs == 2            \* Publish calls made in one behaviour of the two-call specifications
MaxStops == 2           \* Stop calls made in one behaviour
MaxFlushes == 1         \* Flush calls made in one behaviour
MaxResumes == 1         \* ResumePublish calls that find their key paused
MaxCalls == 2           \* Publish, Stop and Flush calls in progress at one time
CountThreshold == 2     \* PublishSettings.CountThreshold
ByteThreshold == 3      \* PublishSettings.ByteThreshold
NumGoroutines == 2      \* PublishSettings.NumGoroutines
SettingsMaxOutstandingMessages == 2  \* FlowControlSettings.MaxOutstandingMessages
SettingsMaxOutstandingBytes == 3     \* FlowControlSettings.MaxOutstandingBytes
TopicNameLen == 24      \* len(t.name)
MaxRetries == 2         \* transient failures retried inside one RPC call
SettingsBufferedByteLimit == 1       \* PublishSettings.BufferedByteLimit
StopMaxOutstandingMessages == 1      \* MaxOutstandingMessages of the publishers of NarrowInit
CompressionBytesThreshold == 2       \* PublishSettings.CompressionBytesThreshold
MaxItems == 1002        \* items added to the counted partition of ClampSpec

\* ------------------------------------------------------- program constants
MaxPublishRequestCount == 1000
MaxPublishRequestBytes == 10000000
DefaultMaxOutstandingMessages == 1000
DefaultMaxOutstandingBytes == -1
GOMAXPROCS == 4
maxInt == 2147483647    \* 1<<(intSize-1) - 1 of a build with 32-bit int

Keys == {"", "a", "b"}
Policies == {"FlowControlIgnore", "FlowControlBlock", "FlowControlSignalError"}

Msgs == 1..MaxMsgs
Few == 1..FewMsgs
Stops == 1..MaxStops
Flushes == 1..MaxFlushes

\* error values
ErrTopicStopped == "ErrTopicStopped"
errTopicOrderingNotEnabled == "errTopicOrderingNotEnabled"
ErrFlowControllerMaxOutstanding == "ErrFlowControllerMaxOutstanding"
ErrContextCanceled == "context.Canceled"
ErrOversizedMessage == "ErrOversizedItem"
ErrDraining == "draining"
ErrOverflow == "ErrOverflow"
ErrRPC == "rpc error"
ErrPublishingPaused(k) == "ErrPublishingPaused " \o k
NoErr == "nil"

VARIABLES
    EnableMessageOrdering,  \* Publisher.EnableMessageOrdering
    LimitExceededBehavior,  \* PublishSettings.FlowControlSettings.LimitExceededBehavior
    MaxOutstandingMessages, \* PublishSettings.FlowControlSettings.MaxOutstandingMessages
    MaxOutstandingBytes,    \* PublishSettings.FlowControlSettings.MaxOutstandingBytes
    EnableCompression,      \* PublishSettings.EnableCompression
    countThreshold,         \* PublishSettings.CountThreshold
    bundleItems,            \* a partition of which only the counts are kept: the
                            \* number of items in its open bundle
    requestItems,           \* and the number of messages of the last bundle cut from it
    stopped,                \* Publisher.stopped
    scheduler,              \* Publisher.scheduler != nil
    muReaders,              \* Publish calls holding t.mu.RLock
    ppc,                    \* position of each Publish call
    msg,                    \* the message of each Publish call: [key, size]
    res,                    \* the PublishResult of each Publish call
    fcCount, fcBytes,       \* flow controller: outstanding messages and bytes
    cur,                    \* scheduler: the open bundle of each partition
    queue,                  \* scheduler: the cut bundles of each partition, oldest first
    handler,                \* scheduler: the bundle each partition's handler is processing
    keysWithErrors,         \* scheduler: the paused ordering keys
    done,                   \* scheduler: stopped
    spc, stopWait,          \* Stop calls: position, messages FlushAndStop still waits for
    fpc, flushWait,         \* Flush calls: position, messages Flush still waits for
    resumes,                \* ResumePublish calls made so far
    \* history
    acquired, released,     \* per message: acquire and release calls that succeeded
    accepted,               \* per ordering key: its messages the scheduler's Add accepted, in order
    rpcLog,                 \* per partition: the requests handed to the Publish RPC, in order
    failedKeys,             \* keys with a failed send and no ResumePublish since
    stopPre, flushPre,      \* messages accepted by Publish calls completed before the
                            \* call and not resolved yet
    fasCalls,               \* calls of scheduler.FlushAndStop
    attempts,               \* per partition: failed attempts of the RPC call last begun
    newSchedulers,          \* calls of scheduler.NewPublishScheduler
    afterFail               \* Publish calls begun after a failed send of their key, with
                            \* no ResumePublish of the key since the call began

cfgVars == <<EnableMessageOrdering, LimitExceededBehavior, MaxOutstandingMessages,
             MaxOutstandingBytes, EnableCompression, countThreshold>>
countVars == <<bundleItems, requestItems>>
pubVars == <<stopped, scheduler, muReaders>>
callVars == <<ppc, msg, res>>
fcVars == <<fcCount, fcBytes>>
schedVars == <<cur, queue, handler, keysWithErrors, done>>
stopVars == <<spc, stopWait, fpc, flushWait, resumes>>
histVars == <<acquired, released, accepted, rpcLog, failedKeys, stopPre, flushPre, fasCalls,
              afterFail, attempts, newSchedulers>>
vars == <<cfgVars, countVars, pubVars, callVars, fcVars, schedVars, stopVars, histVars>>

\* ----------------------------------------------------------------- helpers
RECURSIVE SumSizes(_)
SumSizes(s) == IF s = <<>> THEN 0 ELSE msg[Head(s)].size + SumSizes(Tail(s))

RECURSIVE Flatten(_)
Flatten(ss) == IF ss = <<>> THEN <<>> ELSE Head(ss) \o Flatten(Tail(ss))

Range(s) == {s[i] : i \in 1..Len(s)}

NoHandler == [pc |-> "none", bms |-> <<>>, err |-> NoErr, ids |-> <<>>, i |-> 0, gzip |-> FALSE]
NoId == <<"id", 0>>
Unset == [n |-> 0, id |-> NoId, err |-> NoErr]

\* messages the scheduler still holds: buffered, cut or being handled
InScheduler ==
    UNION {Range(cur[k]) \cup Range(Flatten(queue[k])) \cup Range(handler[k].bms) : k \in Keys}

\* messages accepted by a Publish call that has returned
Accepted == UNION {Range(accepted[k]) : k \in Keys}
AcceptedReturned == {m \in Accepted : ppc[m] = "done" /\ res[m].n = 0}

\* the calls in progress
InProgress ==
    Cardinality({m \in Msgs : ppc[m] \notin {"idle", "done"}})
    + Cardinality({s \in Stops : spc[s] \notin {"idle", "done"}})
    + Cardinality({f \in Flushes : fpc[f] \notin {"idle", "done"}})

\* the ordering keys a new message may carry: the keys are interchangeable, so
\* "b" is taken only once "a" is in use
KeyChoices ==
    IF \E m \in Msgs : ppc[m] # "idle" /\ msg[m].key = "a" THEN Keys ELSE Keys \ {"b"}

\* ------------------------------------------------------------ PublishResult
\* ipubsub.SetPublishResult(r, id, err)
SetPublishResult(r, id, err) == [n |-> r.n + 1, id |-> id, err |-> err]

Ready(m) == res[m].n > 0

\* ---------------------------------------------------------- flow controller
\* initBundler: the limits handed to newTopicFlowController
fcsMaxOutstandingBytes ==
    IF MaxOutstandingBytes > 0 THEN MaxOutstandingBytes
    ELSE DefaultMaxOutstandingBytes

fcsMaxOutstandingMessages ==
    IF MaxOutstandingMessages > 0 THEN MaxOutstandingMessages
    ELSE DefaultMaxOutstandingMessages

\* Fits with the byte limit left out
FitsCountOnly(size) ==
    fcsMaxOutstandingMessages <= 0 \/ fcCount + 1 <= fcsMaxOutstandingMessages

\* a limit that is zero or negative leaves its dimension unlimited
Fits(size) ==
    /\ fcsMaxOutstandingMessages <= 0 \/ fcCount + 1 <= fcsMaxOutstandingMessages
    /\ fcsMaxOutstandingBytes <= 0 \/ fcBytes + size <= fcsMaxOutstandingBytes

\* flowController.acquire, the reservation
Reserve(size) ==
    /\ fcCount' = fcCount + 1
    /\ fcBytes' = fcBytes + size

\* flowController.release
Release(size) ==
    /\ fcCount' = fcCount - 1
    /\ fcBytes' = fcBytes - size

\* --------------------------------------------------------------- scheduler
calcFieldSizeString(n) == 1 + (IF n < 128 THEN 1 ELSE 2) + n

\* BundleCountThreshold left at the ceiling, the setting not applied
BundleCountThresholdUnset == MaxPublishRequestCount

\* BundleCountThreshold taken from the setting as it is
BundleCountThresholdUnclamped == countThreshold

\* initBundler: t.scheduler.BundleCountThreshold
BundleCountThreshold ==
    IF countThreshold > MaxPublishRequestCount THEN MaxPublishRequestCount
    ELSE countThreshold

\* scheduler.Add: a bundle of n items has reached the count threshold
CountFull(n) == n >= BundleCountThreshold

\* BundleByteThreshold left at the ceiling, the setting not applied
BundleByteThresholdUnset == MaxPublishRequestBytes

\* initBundler: t.scheduler.BundleByteThreshold
BundleByteThreshold == ByteThreshold

\* initBundler: t.scheduler.BundleByteLimit
BundleByteLimit == MaxPublishRequestBytes - calcFieldSizeString(TopicNameLen) - 5

\* workers with the setting not applied
workersDefault == 25 * GOMAXPROCS

\* initBundler: the worker count handed to NewPublishScheduler
workers == IF NumGoroutines = 0 THEN 25 * GOMAXPROCS ELSE NumGoroutines

Sizes == {1, BundleByteLimit + 1}

\* scheduler.IsPaused
IsPaused(k) == k \in keysWithErrors

\* scheduler.Pause: the unordered partition is never paused
Pause(k) == IF k # "" THEN keysWithErrors \cup {k} ELSE keysWithErrors

\* scheduler.Resume
Resume(k) == keysWithErrors \ {k}

\* initBundler: t.scheduler.BufferedByteLimit; a byte limit on the flow
\* controller replaces the setting by maxInt
bufferedByteLimit ==
    LET setting == IF MaxOutstandingBytes > 0 THEN maxInt ELSE SettingsBufferedByteLimit
    IN  IF setting > 0 THEN setting ELSE 10 * MaxPublishRequestBytes

\* the bytes a partition holds: buffered, cut or being handled
BufferedBytes(k) ==
    SumSizes(cur[k]) + SumSizes(Flatten(queue[k])) + SumSizes(handler[k].bms)

\* AddErrors with no limit on the size of an item
AddErrorsNoLimit(k, size) ==
    (IF done THEN {ErrDraining} ELSE {})
    \cup (IF BufferedBytes(k) + size > bufferedByteLimit THEN {ErrOverflow} ELSE {})
    \cup (IF k # "" /\ IsPaused(k) THEN {ErrPublishingPaused(k)} ELSE {})

\* the errors scheduler.Add may answer for an item of this key and size
AddErrors(k, size) ==
    (IF done THEN {ErrDraining} ELSE {})
    \cup (IF size > BundleByteLimit THEN {ErrOversizedMessage} ELSE {})
    \cup (IF BufferedBytes(k) + size > bufferedByteLimit THEN {ErrOverflow} ELSE {})
    \cup (IF k # "" /\ IsPaused(k) THEN {ErrPublishingPaused(k)} ELSE {})

\* scheduler.Add of an accepted item: the partition after the item is bundled.
\* The open bundle is cut before an item that would take it across the byte
\* threshold, and after an item that fills it.
Bundled(k, m) ==
    LET crosses == cur[k] # <<>> /\ SumSizes(cur[k]) + msg[m].size > BundleByteThreshold
        q1 == IF crosses THEN Append(queue[k], cur[k]) ELSE queue[k]
        c1 == IF crosses THEN <<m>> ELSE Append(cur[k], m)
        full == CountFull(Len(c1)) \/ SumSizes(c1) >= BundleByteThreshold
    IN  [q |-> IF full THEN Append(q1, c1) ELSE q1, c |-> IF full THEN <<>> ELSE c1]

\* CutAll with the open bundle of every partition cut, empty or not
CutAllEvery == [k \in Keys |-> Append(queue[k], cur[k])]

\* every partition with its open bundle cut (a flush)
CutAll == [k \in Keys |-> IF cur[k] = <<>> THEN queue[k] ELSE Append(queue[k], cur[k])]

\* ------------------------------------------------------------------ t.mu
\* a goroutine blocked in t.mu.Lock keeps later readers out; a Publish between
\* initBundler's RUnlock and its Lock keeps no one out
WriterPending == \E s \in Stops : spc[s] = "lock"
\* a call holds t.mu.Lock between two of its steps
WriteLocked == (\E s \in Stops : spc[s] = "locked") \/ (\E m \in Msgs : ppc[m] = "locked")
CanRLock == ~WriterPending /\ ~WriteLocked
\* CanLock with the write lock granted while readers hold the lock
CanLockAlways == TRUE

CanLock == muReaders = {} /\ ~WriteLocked

\* -------------------------------------------------------------------- Init
\* A new publisher with the given flow-control limits. With outstanding > 0 it
\* is a publisher whose scheduler exists and for which that many earlier
\* messages of one byte each are acquired and still with the service.
InitFull(messages, bytes, outstanding, compression, count) ==
    /\ EnableMessageOrdering \in BOOLEAN
    /\ EnableCompression = compression
    /\ countThreshold = count
    /\ bundleItems = 0
    /\ requestItems = 0
    /\ LimitExceededBehavior \in Policies
    /\ MaxOutstandingMessages = messages
    /\ MaxOutstandingBytes = bytes
    /\ stopped = FALSE
    /\ scheduler = (outstanding > 0)
    /\ muReaders = {}
    /\ ppc = [m \in Msgs |-> "idle"]
    /\ msg = [m \in Msgs |-> [key |-> "", size |-> 0]]
    /\ res = [m \in Msgs |-> Unset]
    /\ fcCount = outstanding
    /\ fcBytes = outstanding
    /\ cur = [k \in Keys |-> <<>>]
    /\ queue = [k \in Keys |-> <<>>]
    /\ handler = [k \in Keys |-> NoHandler]
    /\ keysWithErrors = {}
    /\ done = FALSE
    /\ spc = [s \in Stops |-> "idle"]
    /\ stopWait = [s \in Stops |-> {}]
    /\ fpc = [f \in Flushes |-> "idle"]
    /\ flushWait = [f \in Flushes |-> {}]
    /\ resumes = 0
    /\ acquired = [m \in Msgs |-> 0]
    /\ released = [m \in Msgs |-> 0]
    /\ accepted = [k \in Keys |-> <<>>]
    /\ rpcLog = [k \in Keys |-> <<>>]
    /\ failedKeys = {}
    /\ stopPre = [s \in Stops |-> {}]
    /\ flushPre = [f \in Flushes |-> {}]
    /\ fasCalls = 0
    /\ attempts = [k \in Keys |-> 0]
    /\ newSchedulers = (IF outstanding > 0 THEN 1 ELSE 0)
    /\ afterFail = {}

\* the same with compression as DefaultPublishSettings has it, disabled
InitWith(messages, bytes, outstanding) ==
    InitFull(messages, bytes, outstanding, FALSE, CountThreshold)

Init == InitWith(SettingsMaxOutstandingMessages, SettingsMaxOutstandingBytes, 0)

\* A new publisher that admits one outstanding message
NarrowInit == InitWith(StopMaxOutstandingMessages, SettingsMaxOutstandingBytes, 0)

\* ----------------------------------------------------------------- Publish
\* OrderingRejected with the ordering check left out
OrderingRejectedNever(k) == FALSE

\* Publish: the ordering check on the message
OrderingRejected(k) == ~EnableMessageOrdering /\ k # ""

\* InitNoop with nothing checked
InitNoopNever == FALSE

\* initBundler: nothing to create
InitNoop == stopped \/ scheduler

\* AddKey with every item added to the unordered partition
AddKeyUnordered(m) == ""

\* Publish: the key the item is added under
AddKey(m) == msg[m].key

\* AcquireFailed without its return: Publish goes on to scheduler.Add
AcquireFailedNoReturn(m, k, err) ==
    /\ keysWithErrors' = Pause(k)
    /\ res' = [res EXCEPT ![m] = SetPublishResult(@, NoId, err)]
    /\ ppc' = [ppc EXCEPT ![m] = "add"]
    /\ muReaders' = muReaders \cup {m}
    /\ UNCHANGED <<fcVars, acquired>>

\* AcquireFailed with the message counted although acquire failed
AcquireFailedPartial(m, k, err) ==
    /\ keysWithErrors' = Pause(k)
    /\ res' = [res EXCEPT ![m] = SetPublishResult(@, NoId, err)]
    /\ ppc' = [ppc EXCEPT ![m] = "done"]
    /\ muReaders' = muReaders \ {m}
    /\ fcCount' = fcCount + 1
    /\ UNCHANGED <<fcBytes, acquired>>

\* Publish: acquire failed; the key is paused and the handle set
AcquireFailed(m, k, err) ==
    /\ keysWithErrors' = Pause(k)
    /\ res' = [res EXCEPT ![m] = SetPublishResult(@, NoId, err)]
    /\ ppc' = [ppc EXCEPT ![m] = "done"]
    /\ muReaders' = muReaders \ {m}
    /\ UNCHANGED <<fcVars, acquired>>

\* Publish: acquire succeeded
AcquireOk(m, size) ==
    /\ Reserve(size)
    /\ acquired' = [acquired EXCEPT ![m] = @ + 1]
    /\ ppc' = [ppc EXCEPT ![m] = "add"]
    /\ muReaders' = muReaders \cup {m}
    /\ UNCHANGED <<keysWithErrors, res>>

\* Acquire with the limits enforced under every policy
AcquireIgnoreChecked(m, k, size) ==
    IF Fits(size) THEN AcquireOk(m, size)
    ELSE AcquireFailed(m, k, ErrFlowControllerMaxOutstanding)

\* Publish: t.flowController.acquire(ctx, msgSize) under each policy; under
\* Block a message that does not fit waits, the read lock held.
Acquire(m, k, size) ==
    CASE LimitExceededBehavior = "FlowControlIgnore" -> AcquireOk(m, size)
      [] LimitExceededBehavior = "FlowControlSignalError" ->
             IF Fits(size) THEN AcquireOk(m, size)
             ELSE AcquireFailed(m, k, ErrFlowControllerMaxOutstanding)
      [] LimitExceededBehavior = "FlowControlBlock" ->
             IF Fits(size) THEN AcquireOk(m, size)
             ELSE /\ ppc' = [ppc EXCEPT ![m] = "acquire"]
                  /\ muReaders' = muReaders \cup {m}
                  /\ UNCHANGED <<fcVars, acquired, keysWithErrors, res>>

\* Locked without the stopped check
LockedUnchecked(m, k, size) == Acquire(m, k, size)

\* Publish from t.mu.RLock on: a stopped publisher sets the handle and returns;
\* otherwise capacity is acquired with the read lock held.
Locked(m, k, size) ==
    IF stopped
    THEN /\ res' = [res EXCEPT ![m] = SetPublishResult(@, NoId, ErrTopicStopped)]
         /\ ppc' = [ppc EXCEPT ![m] = "done"]
         /\ UNCHANGED <<muReaders, fcVars, acquired, keysWithErrors>>
    ELSE Acquire(m, k, size)

\* Publish is called: the handle is created and a keyed message on a publisher
\* without ordering is rejected; initBundler reads stopped and scheduler under
\* the read lock and, with a scheduler to create, asks for the write lock;
\* otherwise Publish goes on to its stopped check and acquire.
PublishBegin(m, k, size) ==
    /\ ppc[m] = "idle"
    /\ \A j \in Msgs : j < m => ppc[j] # "idle"
    /\ InProgress < MaxCalls
    /\ k \in KeyChoices
    /\ msg' = [msg EXCEPT ![m] = [key |-> k, size |-> size]]
    /\ afterFail' = IF k \in failedKeys THEN afterFail \cup {m} ELSE afterFail
    /\ IF OrderingRejected(k)
       THEN /\ res' = [res EXCEPT ![m] = SetPublishResult(@, NoId, errTopicOrderingNotEnabled)]
            /\ ppc' = [ppc EXCEPT ![m] = "done"]
            /\ UNCHANGED <<muReaders, fcVars, acquired, keysWithErrors>>
       ELSE /\ CanRLock
            /\ IF InitNoop
               THEN Locked(m, k, size)
               ELSE /\ ppc' = [ppc EXCEPT ![m] = "init"]
                    /\ UNCHANGED <<res, muReaders, fcVars, acquired, keysWithErrors>>
    /\ UNCHANGED <<cfgVars, countVars, stopped, scheduler, cur, queue, handler, done, stopVars,
                   released, accepted, rpcLog, failedKeys, stopPre, flushPre, fasCalls, attempts, newSchedulers>>

\* initBundler under the write lock: the re-check, then the scheduler and the
\* flow controller are created.
InitBundlerBody(m) ==
    /\ scheduler' = IF InitNoop THEN scheduler ELSE TRUE
    /\ newSchedulers' = IF InitNoop THEN newSchedulers ELSE newSchedulers + 1
    /\ ppc' = [ppc EXCEPT ![m] = "check"]
    /\ UNCHANGED <<cfgVars, countVars, stopped, muReaders, msg, res, fcVars, schedVars, stopVars,
                   acquired, released, accepted, rpcLog, failedKeys, stopPre, flushPre,
                   fasCalls, afterFail, attempts>>

InitBundlerLocked(m) ==
    /\ ppc[m] = "init"
    /\ CanLock
    /\ InitBundlerBody(m)

\* Publish after initBundler: the stopped check and acquire
PublishCheck(m) ==
    /\ ppc[m] = "check"
    /\ CanRLock
    /\ Locked(m, msg[m].key, msg[m].size)
    /\ UNCHANGED <<cfgVars, countVars, stopped, scheduler, msg, cur, queue, handler, done, stopVars,
                   released, accepted, rpcLog, failedKeys, stopPre, flushPre, fasCalls, afterFail, attempts, newSchedulers>>

\* Publish: capacity frees for an acquire waiting under Block
PublishAcquire(m) ==
    /\ ppc[m] = "acquire"
    /\ Fits(msg[m].size)
    /\ AcquireOk(m, msg[m].size)
    /\ UNCHANGED <<cfgVars, countVars, stopped, scheduler, msg, cur, queue, handler, done, stopVars,
                   released, accepted, rpcLog, failedKeys, stopPre, flushPre, fasCalls, afterFail, attempts, newSchedulers>>

\* PublishAcquireCancelled with the capacity reserved all the same
PublishAcquireCancelledReserved(m) ==
    /\ ppc[m] = "acquire"
    /\ ~Fits(msg[m].size)
    /\ keysWithErrors' = Pause(msg[m].key)
    /\ res' = [res EXCEPT ![m] = SetPublishResult(@, NoId, ErrContextCanceled)]
    /\ ppc' = [ppc EXCEPT ![m] = "done"]
    /\ muReaders' = muReaders \ {m}
    /\ Reserve(msg[m].size)
    /\ UNCHANGED <<cfgVars, countVars, stopped, scheduler, msg, cur, queue, handler, done, stopVars,
                   acquired, released, accepted, rpcLog, failedKeys, stopPre, flushPre,
                   fasCalls, afterFail, attempts, newSchedulers>>

\* Publish: the caller's context is cancelled while acquire waits under Block
PublishAcquireCancelled(m) ==
    /\ ppc[m] = "acquire"
    /\ ~Fits(msg[m].size)
    /\ AcquireFailed(m, msg[m].key, ErrContextCanceled)
    /\ UNCHANGED <<cfgVars, countVars, stopped, scheduler, msg, cur, queue, handler, done, stopVars,
                   released, accepted, rpcLog, failedKeys, stopPre, flushPre, fasCalls, afterFail, attempts, newSchedulers>>

\* AddFailed with the key left as it is
AddFailedUnpaused(m, err) ==
    /\ res' = [res EXCEPT ![m] = SetPublishResult(@, NoId, err)]
    /\ UNCHANGED <<keysWithErrors, cur, queue, accepted>>

\* AddFailed with the error of scheduler.Add ignored
AddFailedIgnored(m, err) ==
    /\ keysWithErrors' = Pause(msg[m].key)
    /\ UNCHANGED <<res, cur, queue, accepted>>

\* Publish: scheduler.Add was refused; the key is paused and the handle set
AddFailed(m, err) ==
    /\ keysWithErrors' = Pause(msg[m].key)
    /\ res' = [res EXCEPT ![m] = SetPublishResult(@, NoId, err)]
    /\ UNCHANGED <<cur, queue, accepted>>

\* Publish: scheduler.Add took the item
AddOk(m) ==
    LET k == AddKey(m) IN
    /\ cur' = [cur EXCEPT ![k] = Bundled(k, m).c]
    /\ queue' = [queue EXCEPT ![k] = Bundled(k, m).q]
    /\ accepted' = [accepted EXCEPT ![msg[m].key] = Append(@, m)]
    /\ UNCHANGED <<keysWithErrors, res>>

\* Publish: t.scheduler.Add(msg.OrderingKey, item, msgSize), then the return
PublishAdd(m) ==
    /\ ppc[m] = "add"
    /\ IF AddErrors(AddKey(m), msg[m].size) = {}
       THEN AddOk(m)
       ELSE \E err \in AddErrors(AddKey(m), msg[m].size) : AddFailed(m, err)
    /\ ppc' = [ppc EXCEPT ![m] = "done"]
    /\ muReaders' = muReaders \ {m}
    /\ UNCHANGED <<cfgVars, countVars, stopped, scheduler, msg, fcVars, handler, done, stopVars,
                   acquired, released, rpcLog, failedKeys, stopPre, flushPre, fasCalls, afterFail, attempts, newSchedulers>>

\* ---------------------------------------------------- publishMessageBundle
\* publishMessageBundle: the ordering key of the bundle (that of its last message)
BundleKey(bms) == msg[bms[Len(bms)]].key

\* pbMsgs with the request filled back to front
pbMsgsReversed(bms) == [i \in 1..Len(bms) |-> bms[Len(bms) + 1 - i]]

\* publishMessageBundle: the request's messages, one per bundled message, in order
pbMsgs(bms) == [i \in 1..Len(bms) |-> bms[i]]

\* publishMessageBundle: batchSize, the sum of proto.Size of the request's messages
batchSize(bms) == SumSizes(bms)

\* shouldCompress with a batch of exactly the threshold compressed
shouldCompressAtThreshold(size) == EnableCompression /\ size >= CompressionBytesThreshold

\* PublishSettings.shouldCompress
shouldCompress(size) == EnableCompression /\ size > CompressionBytesThreshold

\* SkipSend without the IsPaused check
SkipSendNever(bms) == FALSE

\* publishMessageBundle: the send is skipped for a paused ordering key
SkipSend(bms) == BundleKey(bms) # "" /\ IsPaused(BundleKey(bms))

\* the identifiers the service assigns to the messages of a request, in the
\* request's order: each names the message it was assigned to
MessageIds(req) == [i \in 1..Len(req) |-> <<"id", req[i]>>]

\* the handlers running now; the scheduler runs one per partition and at most
\* workers in all
Running == {k \in Keys : handler[k].pc # "none"}
CanDispatch(k) ==
    /\ queue[k] # <<>>
    /\ handler[k].pc = "none"
    /\ Cardinality(Running) < workers

\* A worker takes the partition's oldest cut bundle and runs publishMessageBundle
\* up to the RPC: the messages are encoded, and the request is sent unless the
\* bundle's key is paused.
BundleStart(k) ==
    /\ CanDispatch(k)
    /\ LET bms == Head(queue[k]) IN
       /\ queue' = [queue EXCEPT ![k] = Tail(@)]
       /\ IF SkipSend(bms)
          THEN /\ handler' = [handler EXCEPT ![k] =
                      [pc |-> "ret", bms |-> bms, err |-> ErrPublishingPaused(BundleKey(bms)),
                       ids |-> <<>>, i |-> 0, gzip |-> FALSE]]
               /\ rpcLog' = rpcLog
          ELSE /\ handler' = [handler EXCEPT ![k] =
                      [pc |-> "rpc", bms |-> bms, err |-> NoErr, ids |-> <<>>, i |-> 0,
                       gzip |-> shouldCompress(batchSize(bms))]]
               /\ rpcLog' = [rpcLog EXCEPT ![k] = Append(@, pbMsgs(bms))]
    /\ attempts' = [attempts EXCEPT ![k] = 0]
    /\ UNCHANGED <<cfgVars, countVars, pubVars, callVars, fcVars, cur, keysWithErrors, done, stopVars,
                   acquired, released, accepted, failedKeys, stopPre, flushPre, fasCalls, afterFail, newSchedulers>>

\* A worker takes the partition's oldest cut bundle and runs publishMessageBundle
\* up to its IsPaused check: for a paused key the send is skipped; otherwise
\* the handler goes on to the RPC, which it has not begun.
BundleCheck(k) ==
    /\ CanDispatch(k)
    /\ LET bms == Head(queue[k]) IN
       /\ queue' = [queue EXCEPT ![k] = Tail(@)]
       /\ handler' = [handler EXCEPT ![k] =
              IF SkipSend(bms)
              THEN [pc |-> "ret", bms |-> bms, err |-> ErrPublishingPaused(BundleKey(bms)),
                    ids |-> <<>>, i |-> 0, gzip |-> FALSE]
              ELSE [pc |-> "send", bms |-> bms, err |-> NoErr, ids |-> <<>>, i |-> 0,
                    gzip |-> shouldCompress(batchSize(bms))]]
    /\ attempts' = [attempts EXCEPT ![k] = 0]
    /\ UNCHANGED <<cfgVars, countVars, pubVars, callVars, fcVars, cur, keysWithErrors, done, stopVars,
                   acquired, released, accepted, rpcLog, failedKeys, stopPre, flushPre,
                   fasCalls, afterFail, newSchedulers>>

\* publishMessageBundle after the check found the key not paused: the RPC begins
BundleSend(k) ==
    /\ handler[k].pc = "send"
    /\ handler' = [handler EXCEPT ![k] = [@ EXCEPT !.pc = "rpc"]]
    /\ rpcLog' = [rpcLog EXCEPT ![k] = Append(@, pbMsgs(handler[k].bms))]
    /\ UNCHANGED <<cfgVars, countVars, pubVars, callVars, fcVars, cur, queue, keysWithErrors, done,
                   stopVars, acquired, released, accepted, failedKeys, stopPre, flushPre,
                   fasCalls, afterFail, attempts, newSchedulers>>

\* Recorded with every ordering key paused after an error
RecordedAllKeys(bms, err) ==
    /\ keysWithErrors' = IF err # NoErr THEN Keys \ {""} ELSE keysWithErrors
    /\ failedKeys' = IF err # NoErr /\ BundleKey(bms) # ""
                     THEN failedKeys \cup {BundleKey(bms)} ELSE failedKeys

\* Recorded with the key resumed by a send that succeeds
RecordedClearing(bms, err) ==
    /\ keysWithErrors' = IF err # NoErr THEN Pause(BundleKey(bms))
                         ELSE keysWithErrors \ {BundleKey(bms)}
    /\ failedKeys' = IF err # NoErr /\ BundleKey(bms) # ""
                     THEN failedKeys \cup {BundleKey(bms)} ELSE failedKeys

\* Recorded with the key left as it is after an error
RecordedNoPause(bms, err) ==
    /\ keysWithErrors' = keysWithErrors
    /\ failedKeys' = IF err # NoErr /\ BundleKey(bms) # ""
                     THEN failedKeys \cup {BundleKey(bms)} ELSE failedKeys

\* publishMessageBundle: an error pauses the bundle's key
Recorded(bms, err) ==
    /\ keysWithErrors' = IF err # NoErr THEN Pause(BundleKey(bms)) ELSE keysWithErrors
    /\ failedKeys' = IF err # NoErr /\ BundleKey(bms) # ""
                     THEN failedKeys \cup {BundleKey(bms)} ELSE failedKeys

\* t.c.pubc.Publish returns one identifier per message, or a terminal error,
\* and publishMessageBundle goes on to its final loop.
RpcReturn(k, ok) ==
    /\ handler[k].pc = "rpc"
    /\ LET err == IF ok THEN NoErr ELSE ErrRPC IN
       /\ Recorded(handler[k].bms, err)
       /\ handler' = [handler EXCEPT ![k] =
              [@ EXCEPT !.pc = "loop", !.i = 1, !.err = err,
                        !.ids = IF ok THEN MessageIds(rpcLog[k][Len(rpcLog[k])]) ELSE <<>>]]
    /\ UNCHANGED <<cfgVars, countVars, pubVars, callVars, fcVars, cur, queue, done, stopVars,
                   acquired, released, accepted, rpcLog, stopPre, flushPre, fasCalls, afterFail, attempts, newSchedulers>>

\* RpcRetry with the transient failure handed to publishMessageBundle as the
\* outcome of the call
RpcRetryReported(k) ==
    /\ handler[k].pc = "rpc"
    /\ attempts[k] < MaxRetries
    /\ attempts' = [attempts EXCEPT ![k] = @ + 1]
    /\ Recorded(handler[k].bms, ErrRPC)
    /\ handler' = [handler EXCEPT ![k] = [@ EXCEPT !.pc = "loop", !.i = 1, !.err = ErrRPC]]
    /\ UNCHANGED <<cfgVars, countVars, pubVars, callVars, fcVars, cur, queue, done, stopVars,
                   acquired, released, accepted, rpcLog, stopPre, flushPre, fasCalls, afterFail, newSchedulers>>

\* inside t.c.pubc.Publish: an attempt fails with a transient error and the
\* retryer makes another attempt; publishMessageBundle is still in the call
RpcRetry(k) ==
    /\ handler[k].pc = "rpc"
    /\ attempts[k] < MaxRetries
    /\ attempts' = [attempts EXCEPT ![k] = @ + 1]
    /\ UNCHANGED <<cfgVars, countVars, pubVars, callVars, fcVars, schedVars, stopVars,
                   acquired, released, accepted, rpcLog, failedKeys, stopPre, flushPre,
                   fasCalls, afterFail, newSchedulers>>

\* publishMessageBundle after a skipped send: the paused error pauses the key again
BundleRecord(k) ==
    /\ handler[k].pc = "ret"
    /\ Recorded(handler[k].bms, handler[k].err)
    /\ handler' = [handler EXCEPT ![k] = [@ EXCEPT !.pc = "loop", !.i = 1]]
    /\ UNCHANGED <<cfgVars, countVars, pubVars, callVars, fcVars, cur, queue, done, stopVars,
                   acquired, released, accepted, rpcLog, stopPre, flushPre, fasCalls, afterFail, attempts, newSchedulers>>

\* BundleResult with the identifiers of the response taken back to front
BundleResultSwapped(h, m) ==
    IF h.err # NoErr THEN SetPublishResult(res[m], NoId, h.err)
    ELSE SetPublishResult(res[m], h.ids[Len(h.ids) + 1 - h.i], NoErr)

\* BundleResult with the handle left unset when the bundle failed
BundleResultDropped(h, m) ==
    IF h.err # NoErr THEN res[m]
    ELSE SetPublishResult(res[m], h.ids[h.i], NoErr)

\* publishMessageBundle: the result for the i-th message of the bundle
BundleResult(h, m) ==
    IF h.err # NoErr THEN SetPublishResult(res[m], NoId, h.err)
    ELSE SetPublishResult(res[m], h.ids[h.i], NoErr)

\* BundleRelease with no release for the messages of a bundle that failed
BundleReleaseOnSuccess(h, m) ==
    IF h.err = NoErr
    THEN /\ Release(msg[m].size)
         /\ released' = [released EXCEPT ![m] = @ + 1]
    ELSE UNCHANGED <<fcVars, released>>

\* publishMessageBundle: t.flowController.release(ctx, bm.size) in the final loop
BundleRelease(h, m) ==
    /\ Release(msg[m].size)
    /\ released' = [released EXCEPT ![m] = @ + 1]

\* publishMessageBundle: one turn of the final loop: the message's capacity is
\* released and its handle set; after the last message the handler ends.
BundleLoop(k) ==
    /\ handler[k].pc = "loop"
    /\ LET h == handler[k]
           m == h.bms[h.i]
           last == h.i = Len(h.bms)
           gone == IF last THEN Range(h.bms) ELSE {} IN
       /\ BundleRelease(h, m)
       /\ res' = [res EXCEPT ![m] = BundleResult(h, m)]
       /\ handler' = [handler EXCEPT ![k] = IF last THEN NoHandler ELSE [@ EXCEPT !.i = h.i + 1]]
       /\ stopWait' = [s \in Stops |-> stopWait[s] \ gone]
       /\ flushWait' = [f \in Flushes |-> flushWait[f] \ gone]
       /\ stopPre' = [s \in Stops |-> stopPre[s] \ {m}]
       /\ flushPre' = [f \in Flushes |-> flushPre[f] \ {m}]
    /\ UNCHANGED <<cfgVars, countVars, pubVars, ppc, msg, cur, queue, keysWithErrors, done, spc, fpc,
                   resumes, acquired, accepted, rpcLog, failedKeys, fasCalls, afterFail, attempts, newSchedulers>>

\* publishMessageBundle, the final loop: the second statement of a turn, the
\* handle of the message is set
LoopSet(h, m) ==
    /\ res' = [res EXCEPT ![m] = BundleResult(h, m)]
    /\ UNCHANGED <<fcVars, released>>

\* publishMessageBundle, the final loop: the first statement of a turn, the
\* capacity of the message is released
LoopRelease(h, m) ==
    /\ BundleRelease(h, m)
    /\ UNCHANGED res

\* one turn of the final loop begins: its first statement
BundleLoopRelease(k) ==
    /\ handler[k].pc = "loop"
    /\ LoopRelease(handler[k], handler[k].bms[handler[k].i])
    /\ handler' = [handler EXCEPT ![k] = [@ EXCEPT !.pc = "set"]]
    /\ UNCHANGED <<cfgVars, countVars, pubVars, ppc, msg, cur, queue, keysWithErrors, done, stopVars,
                   acquired, accepted, rpcLog, failedKeys, stopPre, flushPre, fasCalls,
                   afterFail, attempts, newSchedulers>>

\* the turn ends: its second statement; after the last message the handler ends
BundleLoopSet(k) ==
    /\ handler[k].pc = "set"
    /\ LET h == handler[k]
           m == h.bms[h.i]
           last == h.i = Len(h.bms)
           gone == IF last THEN Range(h.bms) ELSE {} IN
       /\ LoopSet(h, m)
       /\ handler' = [handler EXCEPT ![k] =
              IF last THEN NoHandler ELSE [@ EXCEPT !.pc = "loop", !.i = h.i + 1]]
       /\ stopWait' = [s \in Stops |-> stopWait[s] \ gone]
       /\ flushWait' = [f \in Flushes |-> flushWait[f] \ gone]
       /\ stopPre' = [s \in Stops |-> stopPre[s] \ {m}]
       /\ flushPre' = [f \in Flushes |-> flushPre[f] \ {m}]
    /\ UNCHANGED <<cfgVars, countVars, pubVars, ppc, msg, cur, queue, keysWithErrors, done, spc, fpc,
                   resumes, acquired, accepted, rpcLog, failedKeys, fasCalls, afterFail,
                   attempts, newSchedulers>>

\* TimerFire with a timer that never fires
TimerFireNever(k) == FALSE /\ UNCHANGED vars

\* the delay threshold of a partition's open bundle elapses
TimerFire(k) ==
    /\ cur[k] # <<>>
    /\ queue' = [queue EXCEPT ![k] = Append(@, cur[k])]
    /\ cur' = [cur EXCEPT ![k] = <<>>]
    /\ UNCHANGED <<cfgVars, countVars, pubVars, callVars, fcVars, handler, keysWithErrors, done,
                   stopVars, histVars>>

\* -------------------------------------------------------------------- Stop
\* StopNoop without the stopped check
StopNoopUnstopped == ~scheduler

\* Stop: nothing to flush
StopNoop == stopped \/ ~scheduler

\* Stop under the write lock: stopped is set; a Stop that finds the publisher
\* stopped, or without a scheduler, returns. Otherwise scheduler.FlushAndStop
\* begins: every partition's open bundle is cut.
StopLockedBody(s) ==
    /\ stopped' = TRUE
    /\ IF StopNoop
       THEN /\ spc' = [spc EXCEPT ![s] = "done"]
            /\ UNCHANGED <<cur, queue, stopWait, fasCalls>>
       ELSE /\ spc' = [spc EXCEPT ![s] = "wait"]
            /\ queue' = CutAll
            /\ cur' = [k \in Keys |-> <<>>]
            /\ stopWait' = [stopWait EXCEPT ![s] = InScheduler]
            /\ fasCalls' = fasCalls + 1

\* Stop is called: it takes the write lock, or waits for it while Publish
\* calls hold the read lock.
StopBegin(s) ==
    /\ spc[s] = "idle"
    /\ \A j \in Stops : j < s => spc[j] # "idle"
    /\ InProgress < MaxCalls
    /\ stopPre' = [stopPre EXCEPT ![s] = AcceptedReturned]
    /\ IF CanLock THEN StopLockedBody(s)
       ELSE /\ spc' = [spc EXCEPT ![s] = "lock"]
            /\ UNCHANGED <<stopped, cur, queue, stopWait, fasCalls>>
    /\ UNCHANGED <<cfgVars, countVars, scheduler, muReaders, callVars, fcVars, handler, keysWithErrors,
                   done, fpc, flushWait, resumes, acquired, released, accepted, rpcLog,
                   failedKeys, flushPre, afterFail, attempts, newSchedulers>>

\* Stop gets the write lock it waited for
StopLocked(s) ==
    /\ spc[s] = "lock"
    /\ CanLock
    /\ StopLockedBody(s)
    /\ UNCHANGED <<cfgVars, countVars, scheduler, muReaders, callVars, fcVars, handler, keysWithErrors,
                   done, fpc, flushWait, resumes, acquired, released, accepted, rpcLog,
                   failedKeys, stopPre, flushPre, afterFail, attempts, newSchedulers>>

\* scheduler.FlushAndStop ends, and Stop returns: the bundles it flushed have
\* been handled, and the scheduler takes no further item.
StopReturn(s) ==
    /\ spc[s] = "wait"
    /\ stopWait[s] = {}
    /\ done' = TRUE
    /\ spc' = [spc EXCEPT ![s] = "done"]
    /\ UNCHANGED <<cfgVars, countVars, pubVars, callVars, fcVars, cur, queue, handler, keysWithErrors,
                   stopWait, fpc, flushWait, resumes, histVars>>

\* ------------------------------------------------------------------- Flush
\* Flush: nothing to flush (stopped and scheduler are read without the lock)
FlushNoop == stopped \/ ~scheduler

\* Flush is called: it returns at once on a stopped publisher or one without a
\* scheduler; otherwise scheduler.Flush cuts every partition's open bundle.
FlushBody(f, noop) ==
    /\ fpc[f] = "idle"
    /\ \A j \in Flushes : j < f => fpc[j] # "idle"
    /\ InProgress < MaxCalls
    /\ flushPre' = [flushPre EXCEPT ![f] = AcceptedReturned]
    /\ IF noop
       THEN /\ fpc' = [fpc EXCEPT ![f] = "done"]
            /\ UNCHANGED <<queue, cur, flushWait>>
       ELSE /\ fpc' = [fpc EXCEPT ![f] = "wait"]
            /\ queue' = CutAll
            /\ cur' = [k \in Keys |-> <<>>]
            /\ flushWait' = [flushWait EXCEPT ![f] = InScheduler]
    /\ UNCHANGED <<cfgVars, countVars, pubVars, callVars, fcVars, handler, keysWithErrors, done, spc,
                   stopWait, resumes, acquired, released, accepted, rpcLog, failedKeys,
                   stopPre, fasCalls, afterFail, attempts, newSchedulers>>

FlushBegin(f) == FlushBody(f, FlushNoop)

\* scheduler.Flush ends, and Flush returns: the bundles it flushed have been handled
FlushReturn(f) ==
    /\ fpc[f] = "wait"
    /\ flushWait[f] = {}
    /\ fpc' = [fpc EXCEPT ![f] = "done"]
    /\ UNCHANGED <<cfgVars, countVars, pubVars, callVars, fcVars, schedVars, spc, stopWait, flushWait,
                   resumes, histVars>>

\* ----------------------------------------------------------- ResumePublish
\* ResumePublish: nothing to resume
ResumeNoop == ~scheduler

\* ResumePublish(orderingKey): scheduler is read under the read lock, then the
\* key is resumed.
ResumePublish(k) ==
    /\ resumes < MaxResumes
    /\ CanRLock
    /\ resumes' = IF ~ResumeNoop /\ IsPaused(k) THEN resumes + 1 ELSE resumes
    /\ keysWithErrors' = IF ResumeNoop THEN keysWithErrors ELSE Resume(k)
    /\ failedKeys' = IF ResumeNoop THEN failedKeys ELSE failedKeys \ {k}
    /\ afterFail' = {m \in afterFail : msg[m].key # k \/ ppc[m] = "done"}
    /\ UNCHANGED <<cfgVars, countVars, pubVars, callVars, fcVars, cur, queue, handler, done, spc,
                   stopWait, fpc, flushWait, acquired, released, accepted, rpcLog, stopPre,
                   flushPre, fasCalls, attempts, newSchedulers>>

\* -------------------------------------------------------------------- Next
Next ==
    \/ \E m \in Msgs, k \in Keys, size \in Sizes : PublishBegin(m, k, size)
    \/ \E m \in Msgs : InitBundlerLocked(m)
    \/ \E m \in Msgs : PublishCheck(m)
    \/ \E m \in Msgs : PublishAcquire(m)
    \/ \E m \in Msgs : PublishAcquireCancelled(m)
    \/ \E m \in Msgs : PublishAdd(m)
    \/ \E k \in Keys : BundleStart(k)
    \/ \E k \in Keys, ok \in BOOLEAN : RpcReturn(k, ok)
    \/ \E k \in Keys : BundleRecord(k)
    \/ \E k \in Keys : BundleLoop(k)
    \/ \E k \in Keys : TimerFire(k)
    \/ \E s \in Stops : StopBegin(s)
    \/ \E s \in Stops : StopLocked(s)
    \/ \E s \in Stops : StopReturn(s)
    \/ \E f \in Flushes : FlushBegin(f)
    \/ \E f \in Flushes : FlushReturn(f)
    \/ \E k \in Keys : ResumePublish(k)

Spec == Init /\ [][Next]_vars

\* ------------------------------------------------------------ fair schedule
\* The callers of one publisher that uses a single ordering key and makes one
\* Stop call; the scheduler, its handlers and the RPC are as in Next.
LiveKeys == {"", "a"}
LiveStops == {1}
LiveSizes == {1}

LiveNext ==
    \/ \E m \in Few, k \in LiveKeys, size \in LiveSizes : PublishBegin(m, k, size)
    \/ \E m \in Msgs : InitBundlerLocked(m)
    \/ \E m \in Msgs : PublishCheck(m)
    \/ \E m \in Msgs : PublishAcquire(m)
    \/ \E m \in Msgs : PublishAcquireCancelled(m)
    \/ \E m \in Msgs : PublishAdd(m)
    \/ \E k \in LiveKeys : BundleStart(k)
    \/ \E k \in LiveKeys, ok \in BOOLEAN : RpcReturn(k, ok)
    \/ \E k \in LiveKeys : BundleRecord(k)
    \/ \E k \in LiveKeys : BundleLoop(k)
    \/ \E k \in LiveKeys : TimerFire(k)
    \/ \E s \in LiveStops : StopBegin(s)
    \/ \E s \in LiveStops : StopLocked(s)
    \/ \E s \in LiveStops : StopReturn(s)
    \/ \E f \in Flushes : FlushBegin(f)
    \/ \E f \in Flushes : FlushReturn(f)
    \/ \E k \in LiveKeys : ResumePublish(k)

\* The scheduler's goroutines are scheduled fairly: a delay timer that is
\* running fires, a cut bundle with a free worker is handled, a handler that
\* can take a step takes it, and every RPC attempt terminates. Nothing is
\* assumed of the callers.
Fairness ==
    \A k \in LiveKeys :
        /\ WF_vars(TimerFire(k))
        /\ WF_vars(BundleStart(k))
        /\ WF_vars(\E ok \in BOOLEAN : RpcReturn(k, ok))
        /\ WF_vars(BundleRecord(k))
        /\ WF_vars(BundleLoop(k))

LiveSpec == NarrowInit /\ [][LiveNext]_vars /\ Fairness

\* -------------------------------------------------------- Stop, fairly
\* A publisher that admits one outstanding message, with Publish and Stop
\* calls on one ordering key and the unordered partition, messages that fit a
\* bundle. Every goroutine is scheduled fairly: the scheduler's as in
\* Fairness, and a Publish or Stop call that can take its next step takes it.
\* No call is cancelled by fairness: a caller's context is its own.
StopInit == NarrowInit

StopNext ==
    \/ \E m \in Msgs, k \in LiveKeys, size \in LiveSizes : PublishBegin(m, k, size)
    \/ \E m \in Msgs : InitBundlerLocked(m)
    \/ \E m \in Msgs : PublishCheck(m)
    \/ \E m \in Msgs : PublishAcquire(m)
    \/ \E m \in Msgs : PublishAcquireCancelled(m)
    \/ \E m \in Msgs : PublishAdd(m)
    \/ \E k \in LiveKeys : BundleStart(k)
    \/ \E k \in LiveKeys, ok \in BOOLEAN : RpcReturn(k, ok)
    \/ \E k \in LiveKeys : BundleRecord(k)
    \/ \E k \in LiveKeys : BundleLoop(k)
    \/ \E k \in LiveKeys : TimerFire(k)
    \/ \E s \in Stops : StopBegin(s)
    \/ \E s \in Stops : StopLocked(s)
    \/ \E s \in Stops : StopReturn(s)

CallFairness ==
    /\ \A m \in Msgs :
          /\ WF_vars(InitBundlerLocked(m))
          /\ WF_vars(PublishCheck(m))
          /\ WF_vars(PublishAcquire(m))
          /\ WF_vars(PublishAdd(m))
    /\ \A s \in Stops :
          /\ WF_vars(StopLocked(s))
          /\ WF_vars(StopReturn(s))

StopSpec == StopInit /\ [][StopNext]_vars /\ Fairness /\ CallFairness

\* ----------------------------------------------------------------- retries
\* The publish path with the retries inside the RPC call made visible: one
\* ordering key and the unordered partition, messages that fit a bundle.
RetryNext ==
    \/ \E m \in Few, k \in LiveKeys, size \in LiveSizes : PublishBegin(m, k, size)
    \/ \E m \in Msgs : InitBundlerLocked(m)
    \/ \E m \in Msgs : PublishCheck(m)
    \/ \E m \in Msgs : PublishAcquire(m)
    \/ \E m \in Msgs : PublishAcquireCancelled(m)
    \/ \E m \in Msgs : PublishAdd(m)
    \/ \E k \in LiveKeys : BundleStart(k)
    \/ \E k \in LiveKeys : RpcRetry(k)
    \/ \E k \in LiveKeys, ok \in BOOLEAN : RpcReturn(k, ok)
    \/ \E k \in LiveKeys : BundleRecord(k)
    \/ \E k \in LiveKeys : BundleLoop(k)
    \/ \E k \in LiveKeys : TimerFire(k)
    \/ \E k \in LiveKeys : ResumePublish(k)

RetrySpec == NarrowInit /\ [][RetryNext]_vars

\* ------------------------------------------------------ check, then send
\* The publish path with the handler's IsPaused check and the start of its RPC
\* as two steps, between which Publish calls run: one ordering key and the
\* unordered partition, messages that fit a bundle and messages that do not.
SplitNext ==
    \/ \E m \in Few, k \in LiveKeys, size \in Sizes : PublishBegin(m, k, size)
    \/ \E m \in Msgs : InitBundlerLocked(m)
    \/ \E m \in Msgs : PublishCheck(m)
    \/ \E m \in Msgs : PublishAcquire(m)
    \/ \E m \in Msgs : PublishAcquireCancelled(m)
    \/ \E m \in Msgs : PublishAdd(m)
    \/ \E k \in LiveKeys : BundleCheck(k)
    \/ \E k \in LiveKeys : BundleSend(k)
    \/ \E k \in LiveKeys, ok \in BOOLEAN : RpcReturn(k, ok)
    \/ \E k \in LiveKeys : BundleRecord(k)
    \/ \E k \in LiveKeys : BundleLoop(k)
    \/ \E k \in LiveKeys : TimerFire(k)
    \/ \E k \in LiveKeys : ResumePublish(k)

SplitSpec == NarrowInit /\ [][SplitNext]_vars

\* ------------------------------------------------ release, then resolve
\* The publish path with the two statements of the final loop's body as two
\* steps: one ordering key and the unordered partition, messages that fit a
\* bundle and messages that do not.
OrderNext ==
    \/ \E m \in Few, k \in LiveKeys, size \in Sizes : PublishBegin(m, k, size)
    \/ \E m \in Msgs : InitBundlerLocked(m)
    \/ \E m \in Msgs : PublishCheck(m)
    \/ \E m \in Msgs : PublishAcquire(m)
    \/ \E m \in Msgs : PublishAcquireCancelled(m)
    \/ \E m \in Msgs : PublishAdd(m)
    \/ \E k \in LiveKeys : BundleStart(k)
    \/ \E k \in LiveKeys, ok \in BOOLEAN : RpcReturn(k, ok)
    \/ \E k \in LiveKeys : BundleRecord(k)
    \/ \E k \in LiveKeys : BundleLoopRelease(k)
    \/ \E k \in LiveKeys : BundleLoopSet(k)
    \/ \E k \in LiveKeys : TimerFire(k)
    \/ \E k \in LiveKeys : ResumePublish(k)

OrderSpec == NarrowInit /\ [][OrderNext]_vars

\* ------------------------------------------------------------- two calls
\* The publish path of a publisher that admits one outstanding message, with
\* two Publish calls on one ordering key and the unordered partition,
\* messages that fit a bundle and messages that do not, and ResumePublish.
PairNext ==
    \/ \E m \in Few, k \in LiveKeys, size \in Sizes : PublishBegin(m, k, size)
    \/ \E m \in Msgs : InitBundlerLocked(m)
    \/ \E m \in Msgs : PublishCheck(m)
    \/ \E m \in Msgs : PublishAcquire(m)
    \/ \E m \in Msgs : PublishAcquireCancelled(m)
    \/ \E m \in Msgs : PublishAdd(m)
    \/ \E k \in LiveKeys : BundleStart(k)
    \/ \E k \in LiveKeys, ok \in BOOLEAN : RpcReturn(k, ok)
    \/ \E k \in LiveKeys : BundleRecord(k)
    \/ \E k \in LiveKeys : BundleLoop(k)
    \/ \E k \in LiveKeys : TimerFire(k)
    \/ \E k \in LiveKeys : ResumePublish(k)

PairSpec == NarrowInit /\ [][PairNext]_vars

\* The same with Stop calls
HaltNext ==
    \/ \E m \in Few, k \in LiveKeys, size \in Sizes : PublishBegin(m, k, size)
    \/ \E m \in Msgs : InitBundlerLocked(m)
    \/ \E m \in Msgs : PublishCheck(m)
    \/ \E m \in Msgs : PublishAcquire(m)
    \/ \E m \in Msgs : PublishAcquireCancelled(m)
    \/ \E m \in Msgs : PublishAdd(m)
    \/ \E k \in LiveKeys : BundleStart(k)
    \/ \E k \in LiveKeys, ok \in BOOLEAN : RpcReturn(k, ok)
    \/ \E k \in LiveKeys : BundleRecord(k)
    \/ \E k \in LiveKeys : BundleLoop(k)
    \/ \E k \in LiveKeys : TimerFire(k)
    \/ \E s \in Stops : StopBegin(s)
    \/ \E s \in Stops : StopLocked(s)
    \/ \E s \in Stops : StopReturn(s)
    \/ \E k \in LiveKeys : ResumePublish(k)

HaltSpec == NarrowInit /\ [][HaltNext]_vars

\* ------------------------------------------------------------ three calls
\* The publish path of the default publisher with three Publish calls on
\* every ordering key, and ResumePublish.
TrioNext ==
    \/ \E m \in Msgs, k \in Keys, size \in Sizes : PublishBegin(m, k, size)
    \/ \E m \in Msgs : InitBundlerLocked(m)
    \/ \E m \in Msgs : PublishCheck(m)
    \/ \E m \in Msgs : PublishAcquire(m)
    \/ \E m \in Msgs : PublishAcquireCancelled(m)
    \/ \E m \in Msgs : PublishAdd(m)
    \/ \E k \in Keys : BundleStart(k)
    \/ \E k \in Keys, ok \in BOOLEAN : RpcReturn(k, ok)
    \/ \E k \in Keys : BundleRecord(k)
    \/ \E k \in Keys : BundleLoop(k)
    \/ \E k \in Keys : TimerFire(k)
    \/ \E k \in Keys : ResumePublish(k)

TrioSpec == Init /\ [][TrioNext]_vars

\* ---------------------------------------------------------- rejections
\* A publisher with no byte limit on its flow controller, so that the
\* scheduler's BufferedByteLimit applies: one ordering key and the unordered
\* partition, messages that fit a bundle and messages that do not.
PauseNext ==
    \/ \E m \in Few, k \in LiveKeys, size \in Sizes : PublishBegin(m, k, size)
    \/ \E m \in Msgs : InitBundlerLocked(m)
    \/ \E m \in Msgs : PublishCheck(m)
    \/ \E m \in Msgs : PublishAcquire(m)
    \/ \E m \in Msgs : PublishAcquireCancelled(m)
    \/ \E m \in Msgs : PublishAdd(m)
    \/ \E k \in LiveKeys : BundleStart(k)
    \/ \E k \in LiveKeys, ok \in BOOLEAN : RpcReturn(k, ok)
    \/ \E k \in LiveKeys : BundleRecord(k)
    \/ \E k \in LiveKeys : BundleLoop(k)
    \/ \E k \in LiveKeys : TimerFire(k)
    \/ \E k \in LiveKeys : ResumePublish(k)

PauseInit == InitWith(StopMaxOutstandingMessages, 0, 0)

PauseSpec == PauseInit /\ [][PauseNext]_vars

\* ------------------------------------------------- flow-control limits
\* The publisher under every sign of the two configured limits, new or with
\* DefaultMaxOutstandingMessages earlier messages outstanding, publishing
\* unordered messages.
LimitInit ==
    \E messages \in {-1, 0, SettingsMaxOutstandingMessages},
       bytes \in {-1, 0, SettingsMaxOutstandingBytes},
       outstanding \in {0, DefaultMaxOutstandingMessages} :
        InitWith(messages, bytes, outstanding)

LimitNext ==
    \/ \E m \in Msgs, size \in Sizes : PublishBegin(m, "", size)
    \/ \E m \in Msgs : InitBundlerLocked(m)
    \/ \E m \in Msgs : PublishCheck(m)
    \/ \E m \in Msgs : PublishAcquire(m)
    \/ \E m \in Msgs : PublishAcquireCancelled(m)
    \/ \E m \in Msgs : PublishAdd(m)
    \/ BundleStart("")
    \/ \E ok \in BOOLEAN : RpcReturn("", ok)
    \/ BundleLoop("")
    \/ TimerFire("")

LimitSpec == LimitInit /\ [][LimitNext]_vars

\* ------------------------------------------------------ byte threshold
\* The publisher bundling unordered messages of sizes below, at and above the
\* byte threshold.
ByteSizes == {1, ByteThreshold - 1, ByteThreshold, ByteThreshold + 1}

ByteNext ==
    \/ \E m \in Few, size \in ByteSizes : PublishBegin(m, "", size)
    \/ \E m \in Msgs : InitBundlerLocked(m)
    \/ \E m \in Msgs : PublishCheck(m)
    \/ \E m \in Msgs : PublishAcquire(m)
    \/ \E m \in Msgs : PublishAcquireCancelled(m)
    \/ \E m \in Msgs : PublishAdd(m)
    \/ BundleStart("")
    \/ \E ok \in BOOLEAN : RpcReturn("", ok)
    \/ BundleLoop("")
    \/ TimerFire("")

ByteSpec == Init /\ [][ByteNext]_vars

\* ------------------------------------------------------------ compression
\* The publisher with compression enabled or disabled, sending bundles of
\* less than, exactly and more than CompressionBytesThreshold bytes: one
\* ordering key and the unordered partition.
CompressInit ==
    \E compression \in BOOLEAN :
        InitFull(SettingsMaxOutstandingMessages, SettingsMaxOutstandingBytes, 0, compression,
                 CountThreshold)

CompressNext ==
    \/ \E m \in Few, k \in LiveKeys, size \in ByteSizes : PublishBegin(m, k, size)
    \/ \E m \in Msgs : InitBundlerLocked(m)
    \/ \E m \in Msgs : PublishCheck(m)
    \/ \E m \in Msgs : PublishAcquire(m)
    \/ \E m \in Msgs : PublishAcquireCancelled(m)
    \/ \E m \in Msgs : PublishAdd(m)
    \/ \E k \in LiveKeys : BundleStart(k)
    \/ \E k \in LiveKeys, ok \in BOOLEAN : RpcReturn(k, ok)
    \/ \E k \in LiveKeys : BundleRecord(k)
    \/ \E k \in LiveKeys : BundleLoop(k)
    \/ \E k \in LiveKeys : TimerFire(k)

CompressSpec == CompressInit /\ [][CompressNext]_vars

\* --------------------------------------------------------- count threshold
\* The publisher under positive count thresholds below, at and above
\* MaxPublishRequestCount, with items added to a partition of which only the
\* counts are kept, up to MaxItems in one bundle.
CountSettings ==
    {1, CountThreshold, MaxPublishRequestCount - 1, MaxPublishRequestCount,
     MaxPublishRequestCount + 1, 2 * MaxPublishRequestCount}

ClampInit ==
    \E count \in CountSettings :
        InitFull(SettingsMaxOutstandingMessages, SettingsMaxOutstandingBytes, 0, FALSE, count)

\* scheduler.Add of an accepted item, by count: the open bundle is cut when
\* the item fills it
ItemAdd ==
    /\ bundleItems < MaxItems
    /\ IF CountFull(bundleItems + 1)
       THEN /\ requestItems' = bundleItems + 1
            /\ bundleItems' = 0
       ELSE /\ bundleItems' = bundleItems + 1
            /\ UNCHANGED requestItems
    /\ UNCHANGED <<cfgVars, pubVars, callVars, fcVars, schedVars, stopVars, histVars>>

ClampNext == ItemAdd

ClampSpec == ClampInit /\ [][ClampNext]_vars

\* ------------------------------------------------------------ lock by lock
\* The publisher with each write-locked section in two steps: t.mu.Lock is
\* taken, then the section runs to its Unlock. The read-locked sections stay
\* one step each: readers do not exclude one another. Flush takes no lock, so
\* it may run between the two steps of a writer.

\* Stop is called
RaceStopBegin(s) ==
    /\ spc[s] = "idle"
    /\ \A j \in Stops : j < s => spc[j] # "idle"
    /\ InProgress < MaxCalls
    /\ stopPre' = [stopPre EXCEPT ![s] = AcceptedReturned]
    /\ spc' = [spc EXCEPT ![s] = "lock"]
    /\ UNCHANGED <<cfgVars, countVars, pubVars, callVars, fcVars, schedVars, stopWait, fpc,
                   flushWait, resumes, acquired, released, accepted, rpcLog, failedKeys,
                   flushPre, fasCalls, afterFail, attempts, newSchedulers>>

\* Stop: t.mu.Lock returns
RaceStopLock(s) ==
    /\ spc[s] = "lock"
    /\ CanLock
    /\ spc' = [spc EXCEPT ![s] = "locked"]
    /\ UNCHANGED <<cfgVars, countVars, pubVars, callVars, fcVars, schedVars, stopWait, fpc,
                   flushWait, resumes, histVars>>

\* Stop: stopped is written, and t.mu.Unlock
RaceStopWrite(s) ==
    /\ spc[s] = "locked"
    /\ StopLockedBody(s)
    /\ UNCHANGED <<cfgVars, countVars, scheduler, muReaders, callVars, fcVars, handler, keysWithErrors,
                   done, fpc, flushWait, resumes, acquired, released, accepted, rpcLog,
                   failedKeys, stopPre, flushPre, afterFail, attempts, newSchedulers>>

\* initBundler: t.mu.Lock returns
RaceInitLock(m) ==
    /\ ppc[m] = "init"
    /\ CanLock
    /\ ppc' = [ppc EXCEPT ![m] = "locked"]
    /\ UNCHANGED <<cfgVars, countVars, pubVars, msg, res, fcVars, schedVars, stopVars, histVars>>

\* initBundler: the re-check, scheduler is written, and t.mu.Unlock
RaceInitWrite(m) ==
    /\ ppc[m] = "locked"
    /\ InitBundlerBody(m)

\* What an unsynchronised read of stopped, and of scheduler != nil, may return
\* while a writer is in its section: the value before or after the write.
RacyStopped == {stopped} \cup (IF \E s \in Stops : spc[s] = "locked" THEN {TRUE} ELSE {})
RacyScheduler ==
    {scheduler} \cup (IF ~InitNoop /\ \E m \in Msgs : ppc[m] = "locked" THEN {TRUE} ELSE {})
FlushReads == {st \/ ~sc : st \in RacyStopped, sc \in RacyScheduler}

\* Flush is called
RaceFlushBegin(f) == \E noop \in FlushReads : FlushBody(f, noop)

RaceNext ==
    \/ \E m \in Few, k \in LiveKeys, size \in LiveSizes : PublishBegin(m, k, size)
    \/ \E m \in Msgs : RaceInitLock(m)
    \/ \E m \in Msgs : RaceInitWrite(m)
    \/ \E m \in Msgs : PublishCheck(m)
    \/ \E m \in Msgs : PublishAcquire(m)
    \/ \E m \in Msgs : PublishAdd(m)
    \/ \E k \in LiveKeys : BundleStart(k)
    \/ \E k \in LiveKeys, ok \in BOOLEAN : RpcReturn(k, ok)
    \/ \E k \in LiveKeys : BundleRecord(k)
    \/ \E k \in LiveKeys : BundleLoop(k)
    \/ \E k \in LiveKeys : TimerFire(k)
    \/ \E s \in Stops : RaceStopBegin(s)
    \/ \E s \in Stops : RaceStopLock(s)
    \/ \E s \in Stops : RaceStopWrite(s)
    \/ \E s \in Stops : StopReturn(s)
    \/ \E f \in Flushes : RaceFlushBegin(f)
    \/ \E f \in Flushes : FlushReturn(f)
    \/ \E k \in LiveKeys : ResumePublish(k)

RaceSpec == NarrowInit /\ [][RaceNext]_vars

\* ------------------------------------------------------------------ claims
Pos(seq, x) == CHOOSE i \in 1..Len(seq) : seq[i] = x

\* seq lists some of the elements of full, each once, in the order of full
IsSubseq(seq, full) ==
    /\ \A i \in 1..Len(seq) : seq[i] \in Range(full)
    /\ \A i, j \in 1..Len(seq) : i < j => Pos(full, seq[i]) < Pos(full, seq[j])

\* the messages of ordering key K carried by the requests of partition k
KeySent(k, K) == SelectSeq(Flatten(rpcLog[k]), LAMBDA m : msg[m].key = K)

\* C1: under the fair schedule, with every RPC attempt terminating, every
\* handle that a Publish call has returned is eventually resolved.
C1_EventuallyResolved == \A m \in Msgs : (ppc[m] = "done") ~> Ready(m)

C1_Witness ==
    /\ \E m \in Msgs : ppc[m] = "done" /\ released[m] = 1 /\ Ready(m) /\ res[m].err = NoErr
    /\ \E m \in Msgs : ppc[m] = "done" /\ released[m] = 1 /\ Ready(m) /\ res[m].err = ErrRPC

C3_DispatchOrder ==
    \A K \in Keys \ {""} :
        /\ \A k \in Keys \ {K} : KeySent(k, K) = <<>>
        /\ IsSubseq(KeySent(K, K), accepted[K])

C3_Witness ==
    \E K \in Keys \ {""} : Len(rpcLog[K]) = 2 /\ Len(KeySent(K, K)) = 3

\* C5: a request with messages of ordering key K is sent only when no other
\* request with K-messages is in flight, no send for K has failed since the
\* last ResumePublish(K), and every K-message accepted earlier is resolved.
C5_OneAtATime ==
    [][\A k \in Keys :
         Len(rpcLog'[k]) > Len(rpcLog[k]) =>
           LET req == rpcLog'[k][Len(rpcLog'[k])] IN
           \A i \in 1..Len(req) :
             LET K == msg[req[i]].key IN
             K # "" =>
               /\ K \notin failedKeys
               /\ \A k2 \in Keys : handler[k2].pc = "rpc" =>
                      \A m \in Range(handler[k2].bms) : msg[m].key # K
               /\ \A j \in 1..Len(accepted[K]) :
                      (j < Pos(accepted[K], req[i]) /\ accepted[K][j] \notin Range(req))
                          => Ready(accepted[K][j])]_vars

C5_Witness ==
    \E K \in Keys \ {""} :
        /\ Len(rpcLog[K]) = 2
        /\ \E m \in Msgs : res[m].err = ErrRPC /\ msg[m].key = K
        /\ \E m \in Msgs : res[m].err = ErrPublishingPaused(K) /\ released[m] = 1

\* C6: every request is homogeneous in ordering key: all its messages carry
\* the same ordering key.
C6_Homogeneous ==
    \A k \in Keys : \A i \in 1..Len(rpcLog[k]) :
        \A a, b \in Range(rpcLog[k][i]) : msg[a].key = msg[b].key

C6_Witness ==
    /\ rpcLog[""] # <<>>
    /\ \E k \in Keys \ {""} : \E i \in 1..Len(rpcLog[k]) : Len(rpcLog[k][i]) = 2

C7_AllReleased ==
    (\A m \in Msgs : ppc[m] = "idle" \/ (ppc[m] = "done" /\ Ready(m)))
        => /\ fcCount = 0 /\ fcBytes = 0
           /\ \A m \in Msgs : released[m] = acquired[m]

\* C8: when a Stop call has returned, every message accepted by a Publish call
\* that completed before the Stop call began is resolved.
C8_StopWaits == \A s \in Stops : spc[s] = "done" => stopPre[s] = {}

\* C9 as stated: a Publish called on a stopped publisher returns a handle
\* resolved with the stopped error, and acquires, adds and pauses nothing.
C9_StoppedError ==
    [][\A m \in Msgs :
         (ppc[m] = "idle" /\ ppc'[m] # "idle" /\ stopped) =>
            /\ ppc'[m] = "done"
            /\ res'[m] = [n |-> 1, id |-> NoId, err |-> ErrTopicStopped]
            /\ UNCHANGED <<fcVars, cur, queue, keysWithErrors, acquired, accepted>>]_vars

\* C9 as amended: a Publish called on a stopped publisher returns a handle
\* resolved with an error, the ordering-not-enabled error for a keyed message
\* on a publisher without ordering and the stopped error otherwise, and
\* acquires, adds and pauses nothing.
C9_RejectedWhenStopped ==
    [][\A m \in Msgs :
         (ppc[m] = "idle" /\ ppc'[m] # "idle" /\ stopped) =>
            /\ ppc'[m] = "done"
            /\ res'[m] = [n |-> 1, id |-> NoId,
                          err |-> IF OrderingRejected(msg'[m].key)
                                  THEN errTopicOrderingNotEnabled ELSE ErrTopicStopped]
            /\ UNCHANGED <<fcVars, cur, queue, keysWithErrors, acquired, accepted>>]_vars

C9_Witness ==
    /\ stopped
    /\ \E m \in Msgs : res[m].err = ErrTopicStopped /\ acquired[m] = 0
    /\ \E m \in Msgs : res[m].err = errTopicOrderingNotEnabled

\* C10: when a Flush call has returned, every message accepted by a Publish
\* call that completed before the Flush call began is resolved.
C10_FlushWaits == \A f \in Flushes : fpc[f] = "done" => flushPre[f] = {}

\* C11: when the RPC of a bundle ends in a terminal error the bundle's ordering
\* key, if not empty, is paused, and when the handler ends every handle of the
\* bundle is resolved with that error and no identifier.
C11_TerminalError ==
    [][\A k \in Keys :
         /\ (handler[k].pc = "rpc" /\ handler'[k].pc = "loop" /\ handler'[k].err # NoErr)
                => /\ handler'[k].err = ErrRPC
                   /\ BundleKey(handler[k].bms) # ""
                          => BundleKey(handler[k].bms) \in keysWithErrors'
         /\ (handler[k].pc = "loop" /\ handler[k].err = ErrRPC /\ handler'[k].pc = "none")
                => \A m \in Range(handler[k].bms) :
                       res'[m] = [n |-> 1, id |-> NoId, err |-> ErrRPC]]_vars

C11_Witness ==
    \E k \in Keys \ {""} :
        /\ k \in keysWithErrors
        /\ handler[k].pc = "none"
        /\ \E i \in 1..Len(rpcLog[k]) :
               /\ Len(rpcLog[k][i]) = 2
               /\ \A m \in Range(rpcLog[k][i]) : res[m].err = ErrRPC /\ released[m] = 1

\* C12: when the RPC of a bundle succeeds, the handle of the message at each
\* position of the request is resolved with the identifier at that position of
\* the response, and with no error.
C12_IdsByPosition ==
    /\ \A k \in Keys : \A r \in 1..Len(rpcLog[k]) :
          LET req == rpcLog[k][r] IN
          \A i \in 1..Len(req) :
              (Ready(req[i]) /\ res[req[i]].err = NoErr)
                  => res[req[i]] = [n |-> 1, id |-> MessageIds(req)[i], err |-> NoErr]
    /\ \A m \in Msgs :
          (Ready(m) /\ res[m].err = NoErr) => \E k \in Keys : m \in Range(Flatten(rpcLog[k]))

C12_Witness ==
    \E k \in Keys : \E r \in 1..Len(rpcLog[k]) :
        /\ Len(rpcLog[k][r]) = 2
        /\ \A m \in Range(rpcLog[k][r]) : Ready(m) /\ res[m].err = NoErr

\* C13: a step pauses at most the key of the bundle that failed in it or of the
\* Publish call that failed in it: the failure of an unkeyed bundle pauses
\* nothing, the failure for key K leaves every other key as it was, the
\* unordered partition is never paused and no unkeyed Publish fails as paused.
C13_FailureFrame ==
    [][/\ \A k \in Keys :
             (handler[k].pc \in {"rpc", "ret"} /\ handler'[k].pc = "loop"
                                               /\ handler'[k].err # NoErr)
                 => keysWithErrors' \ {BundleKey(handler[k].bms)}
                        = keysWithErrors \ {BundleKey(handler[k].bms)}
       /\ \A K \in keysWithErrors' \ keysWithErrors :
             \/ \E k \in Keys : /\ handler[k].pc \in {"rpc", "ret"}
                                /\ handler'[k].pc = "loop" /\ handler'[k].err # NoErr
                                /\ BundleKey(handler[k].bms) = K
             \/ \E m \in Msgs : /\ ppc[m] # "done" /\ ppc'[m] = "done"
                                /\ msg'[m].key = K /\ res'[m].err # NoErr
       /\ "" \notin keysWithErrors'
       /\ \A m \in Msgs : msg'[m].key = "" => res'[m].err # ErrPublishingPaused("")]_vars

C13_Witness ==
    /\ \E m \in Msgs : msg[m].key = "" /\ res[m].err = ErrRPC
    /\ \E m \in Msgs : msg[m].key = "a" /\ res[m].err = ErrRPC
    /\ \E m \in Msgs : msg[m].key = "b" /\ Ready(m) /\ res[m].err = NoErr
    /\ keysWithErrors = {"a"}

\* C14: a paused ordering key becomes active only in a step of ResumePublish
\* for that key, which resumes that key alone; and scheduler.Add accepts a
\* message that fits a bundle whenever its key is not paused.
C14_OnlyResume ==
    [][/\ \A k \in Keys :
             (k \in keysWithErrors /\ k \notin keysWithErrors') => ResumePublish(k)
       /\ resumes' # resumes
             => \E k \in keysWithErrors : keysWithErrors' = keysWithErrors \ {k}
       /\ \A m \in Msgs :
             (/\ ppc[m] = "add" /\ ppc'[m] = "done"
              /\ ~IsPaused(msg[m].key) /\ ~done /\ msg[m].size <= BundleByteLimit)
                 => /\ accepted'[msg[m].key] = Append(accepted[msg[m].key], m)
                    /\ res'[m] = Unset]_vars

C14_Witness ==
    \E K \in Keys \ {""} : \E m1, m2, m3 \in Msgs :
        /\ m1 < m2 /\ m2 < m3
        /\ msg[m1].key = K /\ res[m1].err = ErrRPC
        /\ m2 \in afterFail /\ msg[m2].key = K /\ res[m2].err = ErrPublishingPaused(K)
        /\ msg[m3].key = K /\ m3 \notin afterFail /\ m3 \in Range(accepted[K])
        /\ Ready(m3) /\ res[m3].err = NoErr

\* C15: a Publish of a keyed message on a publisher whose ordering is disabled
\* returns a handle resolved with the ordering-not-enabled error and changes
\* nothing else: no scheduler is created, no lock is held, no capacity is
\* acquired, nothing is buffered and no key is paused.
C15_OrderingNotEnabled ==
    [][\A m \in Msgs :
         (ppc[m] = "idle" /\ ppc'[m] # "idle" /\ ~EnableMessageOrdering /\ msg'[m].key # "")
            => /\ ppc'[m] = "done"
               /\ res'[m] = [n |-> 1, id |-> NoId, err |-> errTopicOrderingNotEnabled]
               /\ UNCHANGED <<pubVars, fcVars, schedVars, acquired, accepted>>]_vars

C15_Witness ==
    /\ ~EnableMessageOrdering
    /\ \E m \in Msgs : msg[m].key = "a" /\ res[m].err = errTopicOrderingNotEnabled
    /\ \E m \in Msgs : msg[m].key = "" /\ m \in Accepted

\* the requests that carry message m
SentIn(m) == {k \in Keys : m \in Range(Flatten(rpcLog[k]))}

C17_BlockWaits ==
    [][\A m \in Msgs :
         (LimitExceededBehavior = "FlowControlBlock" /\ acquired'[m] = acquired[m] + 1)
            => /\ fcCount + 1 <= fcsMaxOutstandingMessages
               /\ fcBytes + msg'[m].size <= fcsMaxOutstandingBytes
               /\ ppc[m] = "acquire" => \E j \in Msgs \ {m} : released[j] = 1]_vars

C17_Witness ==
    /\ LimitExceededBehavior = "FlowControlBlock"
    /\ \E m \in Msgs : /\ ppc[m] = "acquire" /\ msg[m].size > fcsMaxOutstandingBytes
                       /\ fcCount > 0
                       /\ \E j \in Msgs \ {m} : released[j] = 1

\* C18: under the Error policy the acquire of a Publish succeeds, reserving one
\* message and its bytes, exactly when the message fits both limits; otherwise
\* it fails with the capacity-exceeded error and both counters are unchanged.
C18_ErrorPolicy ==
    [][\A m \in Msgs :
         (/\ LimitExceededBehavior = "FlowControlSignalError"
          /\ ppc[m] \in {"idle", "check"} /\ ppc'[m] \in {"add", "done", "acquire"}
          /\ ~stopped /\ ~OrderingRejected(msg'[m].key))
            => IF /\ fcCount + 1 <= fcsMaxOutstandingMessages
                  /\ fcBytes + msg'[m].size <= fcsMaxOutstandingBytes
               THEN /\ ppc'[m] = "add" /\ res'[m] = Unset /\ acquired'[m] = 1
                    /\ fcCount' = fcCount + 1 /\ fcBytes' = fcBytes + msg'[m].size
               ELSE /\ ppc'[m] = "done" /\ acquired'[m] = 0
                    /\ res'[m] = [n |-> 1, id |-> NoId, err |-> ErrFlowControllerMaxOutstanding]
                    /\ UNCHANGED fcVars]_vars

C18_Witness ==
    /\ LimitExceededBehavior = "FlowControlSignalError"
    /\ fcCount = fcsMaxOutstandingMessages
    /\ \E m \in Msgs : /\ msg[m].size = 1 /\ acquired[m] = 0
                       /\ res[m].err = ErrFlowControllerMaxOutstanding

\* C19: under the Block policy a Publish whose context is cancelled while it
\* waits in acquire returns a handle resolved with the cancellation error and
\* leaves both counters unchanged; the message is never acquired, buffered or
\* released.
C19_CancelReservesNothing ==
    [][\A m \in Msgs :
         /\ (ppc[m] = "acquire" /\ ppc'[m] = "done")
                => /\ res'[m] = [n |-> 1, id |-> NoId, err |-> ErrContextCanceled]
                   /\ UNCHANGED fcVars
         /\ res'[m].err = ErrContextCanceled
                => /\ LimitExceededBehavior = "FlowControlBlock"
                   /\ acquired'[m] = 0 /\ released'[m] = 0
                   /\ \A k \in Keys : m \notin Range(accepted'[k])]_vars

C19_Witness ==
    \E m \in Msgs :
        /\ res[m].err = ErrContextCanceled /\ msg[m].size = 1
        /\ fcCount = fcsMaxOutstandingMessages
        /\ \E j \in Msgs : j > m /\ ppc[j] = "done"

\* C20: under the Ignore policy the acquire of a Publish never fails and never
\* waits, whatever the counters are, and it counts: acquire adds one message
\* and its bytes to the counters, and each release takes them off.
C20_IgnoreAdmits ==
    [][LimitExceededBehavior = "FlowControlIgnore" =>
         /\ \A m \in Msgs :
               (/\ ppc[m] \in {"idle", "check"} /\ ppc'[m] \in {"add", "done", "acquire"}
                /\ ~stopped /\ ~OrderingRejected(msg'[m].key))
                  => /\ ppc'[m] = "add" /\ res'[m] = Unset /\ acquired'[m] = 1
                     /\ fcCount' = fcCount + 1 /\ fcBytes' = fcBytes + msg'[m].size
         /\ \A m \in Msgs :
               /\ ppc'[m] # "acquire"
               /\ res'[m].err \notin {ErrFlowControllerMaxOutstanding, ErrContextCanceled}
               /\ released'[m] = released[m] + 1
                      => fcCount' = fcCount - 1 /\ fcBytes' = fcBytes - msg[m].size]_vars

C20_Witness ==
    /\ LimitExceededBehavior = "FlowControlIgnore"
    /\ fcCount > fcsMaxOutstandingMessages
    /\ fcBytes > fcsMaxOutstandingBytes

\* C21: a configured message limit or byte limit that is zero or negative
\* leaves its dimension unlimited: under the Error or the Block policy a
\* Publish is rejected for capacity, or made to wait, only when a limit that
\* is configured positive would be exceeded.
C21_NonPositiveUnlimited ==
    [][\A m \in Msgs :
         (\/ res[m].n = 0 /\ res'[m].err = ErrFlowControllerMaxOutstanding
          \/ ppc[m] # "acquire" /\ ppc'[m] = "acquire")
            => \/ MaxOutstandingMessages > 0 /\ fcCount + 1 > MaxOutstandingMessages
               \/ MaxOutstandingBytes > 0 /\ fcBytes + msg'[m].size > MaxOutstandingBytes]_vars

\* every bundle the scheduler holds or has handed to the RPC
Bundles ==
    UNION {Range(queue[k]) \cup Range(rpcLog[k])
             \cup (IF handler[k].pc = "none" THEN {} ELSE {handler[k].bms}) : k \in Keys}

\* C22: with count threshold N an open bundle holds fewer than N items and no
\* bundle holds more than N; scheduler.Add of one-byte items cuts the open
\* bundle exactly when the item is its N-th, the cut bundle being the N items
\* in the order they were added, and the next item starts a new bundle.
C22_CountThreshold ==
    [][/\ \A k \in Keys : Len(cur'[k]) < CountThreshold
       /\ \A b \in Bundles' : Len(b) <= CountThreshold
       /\ \A m \in Msgs :
             (ppc[m] = "add" /\ m \in Range(accepted'[msg[m].key]) /\ msg[m].size = 1
              /\ CountThreshold <= ByteThreshold)
                => LET k == msg[m].key IN
                   IF Len(cur[k]) + 1 = CountThreshold
                   THEN /\ queue'[k] = Append(queue[k], Append(cur[k], m))
                        /\ cur'[k] = <<>>
                   ELSE /\ queue'[k] = queue[k]
                        /\ cur'[k] = Append(cur[k], m)]_vars

C22_Witness ==
    /\ rpcLog[""] = << <<1, 2>> >>
    /\ cur[""] = <<3>>
    /\ queue[""] = <<>>

\* message m has left the scheduler's buffers: a worker took its bundle
Dispatched(m) ==
    /\ m \in Accepted
    /\ \A k \in Keys : m \notin Range(cur[k]) /\ m \notin Range(Flatten(queue[k]))

C24_RetriesInvisible ==
    [][/\ \A k \in Keys :
             /\ attempts'[k] > attempts[k]
                    => /\ handler' = handler /\ handler[k].pc = "rpc"
                       /\ UNCHANGED <<res, keysWithErrors, fcVars, released, rpcLog>>
             /\ handler'[k].pc = "rpc"
                    => \A m \in Range(handler'[k].bms) : res'[m] = Unset /\ released'[m] = 0
             /\ (handler[k].pc = "rpc" /\ handler'[k].pc = "loop" /\ handler'[k].err = NoErr)
                    => handler'[k].ids = MessageIds(rpcLog[k][Len(rpcLog[k])])
       /\ \A m \in Msgs :
             (res'[m].n > 0 /\ res'[m].err = NoErr)
                => res'[m] = [n |-> 1, id |-> <<"id", m>>, err |-> NoErr] /\ released'[m] = 1]_vars

C24_Witness ==
    \E k \in Keys \ {""} :
        /\ attempts[k] = MaxRetries
        /\ handler[k].pc = "none"
        /\ k \notin keysWithErrors
        /\ Len(rpcLog[k]) = 1 /\ Len(rpcLog[k][1]) = 2
        /\ \A m \in Range(rpcLog[k][1]) :
               res[m] = [n |-> 1, id |-> <<"id", m>>, err |-> NoErr] /\ released[m] = 1

\* C25: Publish never blocks: a Publish call that has reached acquire can
\* always go on by itself, with no release, RPC completion, timer or Stop.
C25_NeverBlocks == \A m \in Msgs : ppc[m] = "acquire" => ENABLED PublishAcquire(m)

C27_StopIdempotent ==
    [][/\ fasCalls' <= 1
       /\ stopped => stopped'
       /\ fasCalls' > fasCalls => scheduler /\ ~stopped /\ fasCalls' = fasCalls + 1
       /\ ~scheduler' => fasCalls' = 0
       /\ \A s \in Stops :
             (spc[s] \in {"idle", "lock"} /\ spc'[s] \in {"wait", "done"})
                => /\ stopped'
                   /\ (stopped \/ ~scheduler) => (spc'[s] = "done" /\ fasCalls' = fasCalls
                                                    /\ queue' = queue /\ cur' = cur)]_vars

C27_Witness ==
    /\ \A s \in Stops : spc[s] = "done"
    /\ fasCalls = 1
    /\ stopped

\* C28: release is called for a message only in the final loop of the handler
\* of its bundle, with the size the message was acquired with, and only then
\* does the flow controller's usage go down; a message is released at most
\* once; in the loop the messages before the current one are released and the
\* others are not; and when a handler ends every message of its bundle has
\* been released exactly once, whatever the outcome of the bundle: sent and
\* answered, failed with a terminal error (a timeout or cancellation of the
\* bundle's context is one), or not sent because the key is paused.
C28_ReleasedOnce ==
    [][/\ \A m \in Msgs :
            /\ released'[m] <= 1
            /\ released'[m] >= released[m]
            /\ released'[m] > released[m]
                 => /\ acquired[m] = 1
                    /\ fcCount' = fcCount - 1
                    /\ fcBytes' = fcBytes - msg[m].size
                    /\ \E k \in Keys : /\ handler[k].pc = "loop"
                                       /\ handler[k].bms[handler[k].i] = m
       /\ (fcCount' < fcCount \/ fcBytes' < fcBytes)
            => \E m \in Msgs : released'[m] > released[m]
       /\ \A k \in Keys :
            /\ handler'[k].pc \in {"rpc", "ret"}
                 => \A m \in Range(handler'[k].bms) : released'[m] = 0
            /\ handler'[k].pc = "loop"
                 => \A j \in 1..Len(handler'[k].bms) :
                       released'[handler'[k].bms[j]] = (IF j < handler'[k].i THEN 1 ELSE 0)
            /\ (handler[k].pc # "none" /\ handler'[k].pc = "none")
                 => \A m \in Range(handler[k].bms) : released'[m] = 1]_vars

C28_Witness ==
    /\ \A k \in Keys : handler[k].pc = "none"
    /\ \E m1, m2, m3 \in Msgs :
          /\ released[m1] = 1 /\ res[m1].err = NoErr /\ res[m1].n = 1
          /\ released[m2] = 1 /\ res[m2].err = ErrRPC
          /\ released[m3] = 1 /\ res[m3].err = ErrPublishingPaused(msg[m3].key)
    /\ fcCount = 0 /\ fcBytes = 0

\* C29: when scheduler.Add takes an item that would carry the open bundle of
\* its partition across the byte threshold, the open bundle is cut as it is
\* and the item is the first item of the next bundle; otherwise the item
\* joins the open bundle; so no bundle, open or dispatched, of more than one
\* item has more bytes than the byte threshold.
C29_CutBeforeCrossing ==
    [][/\ \A m \in Msgs :
            LET k == msg[m].key
                crosses == cur[k] # <<>> /\ SumSizes(cur[k]) + msg[m].size > ByteThreshold
                cut == Append(queue[k], cur[k])
            IN  (ppc[m] = "add" /\ m \in Range(accepted'[k]))
                  => IF crosses
                     THEN \/ queue'[k] = cut /\ cur'[k] = <<m>>
                          \/ queue'[k] = Append(cut, <<m>>) /\ cur'[k] = <<>>
                     ELSE \/ queue'[k] = queue[k] /\ cur'[k] = Append(cur[k], m)
                          \/ queue'[k] = Append(queue[k], Append(cur[k], m)) /\ cur'[k] = <<>>
       /\ \A b \in Bundles \cup {cur[k] : k \in Keys} :
            Len(b) > 1 => SumSizes(b) <= ByteThreshold]_vars

\* the second of two messages that do not fit one bundle has cut the first
C29_Witness ==
    /\ msg[1].size = ByteThreshold - 1
    /\ msg[2].size = ByteThreshold - 1
    /\ accepted[""] = <<1, 2>>
    /\ ppc[2] = "done"
    /\ queue[""] = << <<1>> >>
    /\ cur[""] = <<2>>

\* a bundle's handler starts: it finds the bundle's key paused and will send
\* nothing, its error naming the key, or finds it not paused and will send;
\* it has sent nothing yet
HandlerChecks(k) ==
    (handler[k].pc = "none" /\ handler'[k].pc # "none")
       => LET bms == Head(queue[k])
              K == msg[bms[Len(bms)]].key
          IN  /\ rpcLog' = rpcLog
              /\ handler'[k].bms = bms
              /\ IF K # "" /\ K \in keysWithErrors
                 THEN /\ handler'[k].pc = "ret"
                      /\ handler'[k].err = "ErrPublishingPaused " \o K
                 ELSE handler'[k].pc = "send"

\* the handler of a bundle that was not sent ends: every handle of the bundle
\* is resolved once with ErrPublishingPaused naming the key, every message is
\* released once, and none is in a request
SkippedResolved(k) ==
    (handler[k].pc = "loop" /\ handler'[k].pc = "none"
     /\ handler[k].err = "ErrPublishingPaused " \o k)
       => \A m \in Range(handler[k].bms) :
             /\ res'[m] = [n |-> 1, id |-> NoId, err |-> "ErrPublishingPaused " \o k]
             /\ released'[m] = 1
             /\ \A j \in Keys : m \notin Range(Flatten(rpcLog'[j]))

RpcStarts(k) == Len(rpcLog'[k]) > Len(rpcLog[k])

\* C30 as stated: no RPC for an ordering key is started while the key is
\* paused; a bundle whose handler finds the key paused is not sent, its
\* handles resolve to ErrPublishingPaused naming the key and its messages are
\* released.
C30_NoRpcWhilePaused ==
    [][\A k \in Keys \ {""} :
          /\ RpcStarts(k) => k \notin keysWithErrors
          /\ HandlerChecks(k)
          /\ SkippedResolved(k)]_vars

\* C30: no RPC for an ordering key is started by a handler that found the key
\* paused at its check, and none while an RPC failure of the key is not yet
\* resumed: a request is sent only by a handler whose check found the key not
\* paused; a bundle whose handler finds the key paused is not sent, its
\* handles resolve to ErrPublishingPaused naming the key and its messages are
\* released.
C30_NoRpcAfterPausedCheck ==
    [][\A k \in Keys \ {""} :
          /\ RpcStarts(k) => /\ handler[k].pc = "send"
                              /\ k \notin failedKeys
                              /\ rpcLog'[k] = Append(rpcLog[k], handler[k].bms)
          /\ HandlerChecks(k)
          /\ SkippedResolved(k)]_vars

C30_Witness ==
    \E m1, m2 \in Msgs :
        /\ msg[m1].key = "a" /\ msg[m2].key = "a"
        /\ m1 \in Range(Flatten(rpcLog["a"])) /\ res[m1].err = ErrRPC
        /\ m2 \in Range(accepted["a"]) /\ SentIn(m2) = {}
        /\ res[m2] = [n |-> 1, id |-> NoId, err |-> ErrPublishingPaused("a")]
        /\ released[m2] = 1
        /\ handler["a"].pc = "none"

\* the errors with which Publish is rejected by the flow controller or by
\* scheduler.Add, other than the paused error itself
Rejections ==
    {ErrFlowControllerMaxOutstanding, ErrContextCanceled, ErrOversizedMessage,
     ErrOverflow, ErrDraining}

\* C31: a Publish that is rejected by the flow controller (capacity exceeded,
\* cancelled wait) or by scheduler.Add (oversized, overflow, draining) does
\* not buffer its message, and pauses exactly the message's ordering key, no
\* key at all for an unkeyed message, although no send has failed; while a
\* key is paused every Publish for it that reaches scheduler.Add fails and
\* buffers nothing; and a paused key stays paused until a ResumePublish.
C31_RejectionPauses ==
    [][/\ \A m \in Msgs :
            LET k == msg'[m].key IN
            /\ (ppc[m] # "done" /\ ppc'[m] = "done" /\ res'[m].err \in Rejections)
                  => /\ keysWithErrors' = (IF k # "" THEN keysWithErrors \cup {k}
                                           ELSE keysWithErrors)
                     /\ failedKeys' = failedKeys
                     /\ rpcLog' = rpcLog
                     /\ accepted' = accepted /\ cur' = cur /\ queue' = queue
                     /\ res'[m].n = 1
            /\ (ppc[m] = "add" /\ ppc'[m] = "done" /\ k \in keysWithErrors)
                  => /\ res'[m].n = 1 /\ res'[m].err # NoErr
                     /\ accepted' = accepted /\ cur' = cur /\ queue' = queue
       /\ \A k \in Keys :
            (k \in keysWithErrors /\ k \notin keysWithErrors') => resumes' = resumes + 1
       /\ "" \notin keysWithErrors']_vars

C31_Witness ==
    /\ failedKeys = {}
    /\ \A m \in Msgs : res[m].err # ErrRPC
    /\ "a" \in keysWithErrors
    /\ \E m2, m3 \in Msgs :
          /\ msg[m2].key = "a" /\ res[m2].err = ErrOverflow
          /\ m3 > m2 /\ msg[m3].key = "a" /\ ppc[m3] = "done"
          /\ res[m3].err = ErrPublishingPaused("a")

\* C32: scheduler.Add is called only on a publisher that is not stopped and
\* whose FlushAndStop has not begun, and is never refused as draining; Stop
\* sets the flag, and FlushAndStop begins, only when no Publish is between
\* its stopped check and the end of its Add; and a Publish that makes its
\* stopped check on a stopped publisher is rejected with the stopped error.
C32_NoAddAfterStop ==
    [][/\ \A m \in Msgs :
            /\ (ppc[m] = "add" /\ ppc'[m] = "done")
                  => /\ ~stopped /\ fasCalls = 0 /\ ~done
                     /\ res'[m].err # ErrDraining
            /\ (ppc[m] \in {"idle", "check"} /\ ppc'[m] \in {"acquire", "add", "done"}
                /\ stopped /\ ~OrderingRejected(msg'[m].key))
                  => /\ ppc'[m] = "done"
                     /\ res'[m] = [n |-> 1, id |-> NoId, err |-> ErrTopicStopped]
                     /\ accepted' = accepted
       /\ (stopped' /\ ~stopped) => \A m \in Msgs : ppc[m] \notin {"acquire", "add"}
       /\ fasCalls' > fasCalls => \A m \in Msgs : ppc'[m] \notin {"acquire", "add"}
       /\ stopped' => accepted' = accepted]_vars

C32_Witness ==
    \E s \in Stops, m1, m2 \in Msgs :
        /\ spc[s] = "wait" /\ fasCalls = 1
        /\ m1 \in stopWait[s] /\ m1 \notin stopPre[s] /\ res[m1].n = 0
        /\ ppc[m2] = "done" /\ res[m2].err = ErrTopicStopped

\* C33: with every goroutine scheduled fairly and every RPC attempt
\* terminating, every Stop call that has begun eventually returns.
C33_StopReturns == \A s \in Stops : (spc[s] # "idle") ~> (spc[s] = "done")

\* C34: in every state, a message of a bundle whose handle is resolved has
\* been released, exactly once, and a message of a bundle that is not yet
\* released has an unresolved handle: release comes before the handle;
\* and the flow controller counts exactly the messages acquired and not
\* yet released.
C34_ReleasedBeforeResolved ==
    /\ \A m \in Accepted :
          /\ Ready(m) => released[m] = 1 /\ acquired[m] = 1
          /\ released[m] = 0 => res[m] = Unset
          /\ released[m] <= 1
    /\ fcCount = Cardinality({j \in Msgs : acquired[j] > released[j]})
    /\ fcBytes = SumSizes(SelectSeq([j \in 1..MaxMsgs |-> j],
                                    LAMBDA j : acquired[j] > released[j]))

C34_Witness ==
    \E k \in Keys :
        /\ handler[k].pc = "set" /\ handler[k].i = 2
        /\ Ready(handler[k].bms[1]) /\ released[handler[k].bms[1]] = 1
        /\ ~Ready(handler[k].bms[2]) /\ released[handler[k].bms[2]] = 1
        /\ fcCount = 0 /\ fcBytes = 0

\* C35: in every state the number of bundles being handled (from the
\* encoding of the request to the last handle set) is at most NumGoroutines,
\* or 25 times GOMAXPROCS when NumGoroutines is 0.
C35_WorkerBound ==
    Cardinality({k \in Keys : handler[k].pc # "none"})
        <= (IF NumGoroutines = 0 THEN 25 * GOMAXPROCS ELSE NumGoroutines)

C35_Witness ==
    /\ Cardinality({k \in Keys : handler[k].pc # "none"}) = NumGoroutines
    /\ \E k \in Keys : handler[k].pc = "none" /\ queue[k] # <<>>

\* C36: every bundle cut, being handled or sent has at least one message, and
\* every request has as many messages as its bundle; a partition whose open
\* bundle is empty has no bundle cut by a Flush, a Stop or its timer: only an
\* Add of an item that fills a bundle by itself cuts one.
C36_NoEmptyBundle ==
    [][\A k \in Keys :
          /\ \A i \in 1..Len(queue'[k]) : Len(queue'[k][i]) >= 1
          /\ \A i \in 1..Len(rpcLog'[k]) : Len(rpcLog'[k][i]) >= 1
          /\ handler'[k].pc # "none" => Len(handler'[k].bms) >= 1
          /\ (cur[k] = <<>> /\ Len(queue'[k]) > Len(queue[k]))
                => \E m \in Msgs : /\ ppc[m] = "add" /\ ppc'[m] = "done"
                                   /\ queue'[k] = Append(queue[k], <<m>>)]_vars

C36_Witness ==
    /\ \E f \in Flushes : fpc[f] = "wait" /\ flushWait[f] # {}
    /\ \E s \in Stops : spc[s] = "wait"
    /\ \E k \in Keys : queue[k] # <<>>
    /\ \E k \in Keys : queue[k] = <<>> /\ handler[k].pc = "none" /\ accepted[k] # <<>>
    /\ \A k \in Keys : cur[k] = <<>>

\* C37: the request of a bundle asks for transport compression exactly when
\* compression is enabled and the encoded sizes of the bundle's messages sum
\* to more than CompressionBytesThreshold; the option is the request's own,
\* kept for as long as the call lasts, and a bundle that is not sent asks for
\* none.
C37_CompressionDecision ==
    [][\A k \in Keys :
          /\ Len(rpcLog'[k]) > Len(rpcLog[k])
                => handler'[k].gzip =
                       (/\ EnableCompression
                        /\ SumSizes(rpcLog'[k][Len(rpcLog'[k])]) > CompressionBytesThreshold)
          /\ (handler[k].pc = "rpc" /\ handler'[k].pc = "rpc")
                => handler'[k].gzip = handler[k].gzip
          /\ handler'[k].pc = "ret" => ~handler'[k].gzip]_vars

C37_Witness ==
    /\ handler[""].pc = "rpc" /\ handler[""].gzip
    /\ handler["a"].pc = "rpc" /\ ~handler["a"].gzip
    /\ SumSizes(handler["a"].bms) = CompressionBytesThreshold

\* C38: the count threshold the scheduler uses is CountThreshold, or
\* MaxPublishRequestCount when CountThreshold is larger; whatever the setting,
\* no bundle cut by count has more than MaxPublishRequestCount messages, and
\* the open bundle, which a timer, a Flush or a Stop may cut as it is, has
\* fewer.
C38_CountClamped ==
    /\ BundleCountThreshold =
          (IF countThreshold > 1000 THEN 1000 ELSE countThreshold)
    /\ requestItems <= 1000
    /\ bundleItems < 1000

C38_Witness ==
    /\ countThreshold > MaxPublishRequestCount
    /\ requestItems = MaxPublishRequestCount
    /\ bundleItems = MaxPublishRequestCount - 1

\* a step in which a call reads stopped or scheduler: initBundler's first
\* check or Publish's stopped check, Flush's check, ResumePublish's check
ReadsLifecycle ==
    \/ \E m \in Msgs : /\ ppc[m] \in {"idle", "check"}
                        /\ ppc'[m] # ppc[m]
                        /\ ~OrderingRejected(msg'[m].key)
    \/ \E f \in Flushes : fpc[f] = "idle" /\ fpc'[f] # "idle"
    \/ resumes' # resumes

\* a step in which stopped or scheduler is written
WritesLifecycle ==
    \/ \E s \in Stops : spc[s] = "locked" /\ spc'[s] # "locked"
    \/ \E m \in Msgs : ppc[m] = "locked" /\ ppc'[m] # "locked"

\* C39: every read and write of stopped and of scheduler by Publish, Stop,
\* Flush, ResumePublish and initBundler happens under t.mu: a write is made by
\* the call that holds the write lock, and no call reads either field while
\* another call holds the write lock, so that no read of stopped is concurrent
\* with Stop's write of it.
C39_LifecycleUnderMutex ==
    [][/\ ReadsLifecycle => ~WriteLocked
       /\ (stopped' # stopped \/ scheduler' # scheduler) => WritesLifecycle]_vars

====
